---- MODULE Spec2Model ----
(***************************************************************************)
(* Model of the multi-channel command/response test driver of              *)
(* scripts/test_all.py (CDC serial, HID reports, BLE notifications).       *)
(*                                                                         *)
(* Time is counted in ticks of 0.05 s (the value of POLL_INTERVAL), so     *)
(* every delay of the script is a whole number of ticks.  A statement      *)
(* takes no time; time passes only while the collector sleeps or blocks    *)
(* in a read.  The clock is kept as the two differences the code uses:     *)
(* time.time() - start_time, and the time left of the current wait.        *)
(*                                                                         *)
(* Text is a sequence of code points; bytes are numbers 0..255.            *)
(***************************************************************************)
EXTENDS Integers, Sequences, FiniteSets, TLC

VARIABLES
    chan,         \* channel the running collector works on
    pc,           \* position of the running collector
    left,         \* ticks left of the current sleep / read timeout
    timeout_sec,  \* timeout_sec the collector was called with
    elapsed,      \* time.time() - start_time, counted up to timeout_sec + 1
    idle_count,   \* idle_count of the polling loop
    responses,    \* responses of the polling loop
    buf,          \* receive buffers: serial input buffer, received_hid_data, received_ble_data
    acc,          \* bytes the running readline() has read so far
    nData,        \* chunks carrying response lines delivered so far
    silent,       \* history: consecutive polls without data since a poll last found data
    hist,         \* history: what the channel has delivered since the buffer was cleared
    polled,       \* history: the running collector has polled its buffer
    dpc,          \* position of test_all_interfaces
    avail,        \* interfaces test_all_interfaces was given (ser, hid_device and out_report, ble_client)
    cmdIdx,       \* index in commands of the command under test
    cdc_resp,     \* cdc_resp of test_all_interfaces
    hid_resp,     \* hid_resp of test_all_interfaces
    ble_resp,     \* ble_resp of test_all_interfaces
    report,       \* what compare_responses printed last
    ble_notifications_setup,
    notify_calls, \* history: the start_notify / stop_notify calls that went through
    exercised,    \* history: <<interface, command index>> of the collector calls made
    pending,      \* commands the device has received and not answered yet
    lock,         \* holder of hid_data_lock / ble_data_lock
    hpc,          \* position of the delivery callback
    hchunk,       \* data the delivery callback was called with
    current_data, \* current_data of the polling loop
    appended,     \* history: chunks the callback appended since the buffer was cleared
    returned,     \* history: chunks the polls have handed to the loop
    poll_interval,\* the value of POLL_INTERVAL of the running collector
    intervals,    \* the poll intervals of the two runs on one schedule
    schedule,     \* the chunks the channel mock delivers, each with the delay before it
    sched,        \* what is left of schedule in the current run
    run,          \* which of the two runs is under way
    first,        \* responses of the first run
    hid_cmd,   \* the command handed to encode_hid_command
    packet,       \* the report encode_hid_command built, or a report received
    decoded,      \* what decode_hid_response returned
    cpc,          \* position of the codec exercise
    command,      \* the cmd a function under exercise was called with
    command_type, \* what is_scpi_command made of command
    written,      \* the bytes handed to ser.write / write_gatt_char
    writer,       \* the function that wrote them
    opened,       \* the interfaces main has found and not closed, or the devices discovery holds open
    fpc,          \* position of the discovery function
    port,         \* index of the candidate device discovery is trying
    handle,       \* the device the discovery function returned, 0 for None
    use_0xA1_protocol, \* use_0xA1_protocol of wait_for_response
    result        \* what wait_for_response returned

collector == <<chan, pc, left, timeout_sec, elapsed, idle_count, responses, acc>>
history == <<nData, silent, hist, polled>>
results == <<cdc_resp, hid_resp, ble_resp>>
driver == <<dpc, avail, cmdIdx, results, report, ble_notifications_setup, notify_calls, exercised>>
threads == <<lock, hpc, hchunk, current_data, appended, returned>>
mock == <<poll_interval, intervals, schedule, sched, run, first>>
codec == <<hid_cmd, packet, decoded, cpc>>
exercise == <<command, command_type, written, writer>>
standalone == <<fpc, port, handle, use_0xA1_protocol, result>>
outside == <<driver, pending, threads, mock, codec, exercise, opened, standalone>>
vars == <<collector, buf, history, outside>>

-----------------------------------------------------------------------------
(* Program constants (ticks of 0.05 s, or counts) *)

POLL_INTERVAL == 1
PRE_READ_DELAY == 2
COMMAND_RESPONSE_DELAY == 10
READ_TIMEOUT == 10
MAX_IDLE_POLLS == 10
TEST_COMMAND_DELAY == 10
MULTI_INTERFACE_DELAY == 6
HID_PACKET_SIZE == 64
HID_PROTOCOL_HEADER_SIZE == 3
HID_MAX_COMMAND_LENGTH == 61
HID_MARKER == 161

(* Bounds of the model *)

MaxChunks == 2      \* chunks carrying response lines per invocation
MaxTimeout == 12    \* largest timeout_sec a collector is called with, in ticks
MaxBuf == 2         \* chunks (CDC: one more byte) waiting in a buffer
MaxCommands == 2    \* commands of the list test_all_interfaces gets through
MaxLines == 2       \* lines of a response list handed to compare_responses
MaxPad == 62        \* ASCII characters before the last characters of a command

Channels == {"CDC", "HID", "BLE"}

\* the values of timeout_sec: one below MAX_IDLE_POLLS * POLL_INTERVAL, one above
Timeouts == {MaxTimeout - 3, MaxTimeout}

\* commands = ["*IDN?", "INFO", "STATUS", "HELP"]
commands == << <<42, 73, 68, 78, 63>>, <<73, 78, 70, 79>>,
               <<83, 84, 65, 84, 85, 83>>, <<72, 69, 76, 80>> >>

-----------------------------------------------------------------------------
(* Text helpers: what the Python string methods do *)

None == << -1 >>

NL == 10
PROMPT == <<62>>

Min(a, b) == IF a < b THEN a ELSE b

\* str.strip(): the characters str.isspace() accepts, among the code points used
IsSpace(c) == c \in {9, 10, 11, 12, 13, 28, 29, 30, 31, 32, 133, 160}

RECURSIVE LStrip(_)
LStrip(s) == IF s # <<>> /\ IsSpace(Head(s)) THEN LStrip(Tail(s)) ELSE s

RECURSIVE RStrip(_)
RStrip(s) ==
    IF s # <<>> /\ IsSpace(s[Len(s)]) THEN RStrip(SubSeq(s, 1, Len(s) - 1)) ELSE s

Strip(s) == RStrip(LStrip(s))

\* index of the first NL of s, 0 when there is none
RECURSIVE FirstNL(_, _)
FirstNL(s, i) ==
    IF i > Len(s) THEN 0 ELSE IF s[i] = NL THEN i ELSE FirstNL(s, i + 1)

\* str.split('\n')
RECURSIVE Split(_)
Split(s) ==
    LET i == FirstNL(s, 1)
    IN IF i = 0 THEN <<s>>
       ELSE <<SubSeq(s, 1, i - 1)>> \o Split(SubSeq(s, i + 1, Len(s)))

\* str.encode('utf-8'), for code points below 65536
Utf8Char(c) ==
    IF c < 128 THEN <<c>>
    ELSE IF c < 2048 THEN <<192 + (c \div 64), 128 + (c % 64)>>
    ELSE <<224 + (c \div 4096), 128 + ((c \div 64) % 64), 128 + (c % 64)>>

RECURSIVE Utf8(_)
Utf8(text) == IF text = <<>> THEN <<>> ELSE Utf8Char(Head(text)) \o Utf8(Tail(text))

IsContinuation(b) == 128 <= b /\ b <= 191

\* bytes.decode('utf-8', errors='ignore'): sequences of one, two and three
\* bytes are decoded; a byte that does not start or continue a complete
\* sequence is dropped (four-byte sequences are not among the bytes used)
RECURSIVE DecodeIgnore(_)
DecodeIgnore(bytes) ==
    IF bytes = <<>> THEN <<>>
    ELSE LET b == Head(bytes)
             n == Len(bytes)
         IN IF b < 128 THEN <<b>> \o DecodeIgnore(Tail(bytes))
            ELSE IF /\ 194 <= b /\ b <= 223
                    /\ n >= 2 /\ IsContinuation(bytes[2])
            THEN <<(b - 192) * 64 + (bytes[2] - 128)>>
                 \o DecodeIgnore(SubSeq(bytes, 3, n))
            ELSE IF /\ 224 <= b /\ b <= 239
                    /\ n >= 3 /\ IsContinuation(bytes[2]) /\ IsContinuation(bytes[3])
                    /\ b = 224 => bytes[2] >= 160
                    /\ b = 237 => bytes[2] < 160
            THEN <<(b - 224) * 4096 + (bytes[2] - 128) * 64 + (bytes[3] - 128)>>
                 \o DecodeIgnore(SubSeq(bytes, 4, n))
            ELSE DecodeIgnore(Tail(bytes))

\* bytes.decode('utf-8', errors='replace'): invalid bytes become U+FFFD
DecodeReplace(bytes) ==
    [i \in 1..Len(bytes) |-> IF bytes[i] < 128 THEN bytes[i] ELSE 65533]

\* [x.strip() for x in text.split('\n') if x.strip()]
RECURSIVE StrippedNonEmpty(_)
StrippedNonEmpty(segs) ==
    IF segs = <<>> THEN <<>>
    ELSE (IF Strip(Head(segs)) # <<>> THEN <<Strip(Head(segs))>> ELSE <<>>)
         \o StrippedNonEmpty(Tail(segs))

TextLines(text) == StrippedNonEmpty(Split(text))

-----------------------------------------------------------------------------
(* Framing codec *)

\* data[a:b] of Python, on a 1-based sequence
Slice(s, a, b) == SubSeq(s, a + 1, Min(b, Len(s)))

\* the 65 entries pywinusb is given for the command bytes: report id, header,
\* at most HID_MAX_COMMAND_LENGTH bytes, padding
ReportOf(cmd_bytes) ==
    LET length == Min(Len(cmd_bytes), HID_MAX_COMMAND_LENGTH)
    IN <<0, HID_MARKER, length, 0>>
       \o SubSeq(cmd_bytes, 1, length)
       \o [i \in 1..(HID_PACKET_SIZE - HID_PROTOCOL_HEADER_SIZE - length) |-> 0]

\* mutant of the padding: the header is not counted
encode_hid_command_padded_to_68(cmd_string) ==
    LET cmd_bytes == Utf8(cmd_string)
        length == Min(Len(cmd_bytes), HID_MAX_COMMAND_LENGTH)
    IN <<0, HID_MARKER, length, 0>>
       \o SubSeq(cmd_bytes, 1, length)
       \o [i \in 1..(HID_PACKET_SIZE - length) |-> 0]

encode_hid_command(cmd_string) == ReportOf(Utf8(cmd_string))

\* mutants of the decoder: the payload read from the reserved byte on; a
\* declared length of 0 accepted
decode_hid_response_from_reserved(data) ==
    IF Len(data) >= 5 /\ data[2] = HID_MARKER
    THEN LET length == data[3]
         IN IF 0 < length /\ length <= HID_MAX_COMMAND_LENGTH
            THEN DecodeIgnore(SubSeq(data, 4, Min(3 + length, Len(data))))
            ELSE << -1 >>
    ELSE << -1 >>

decode_hid_response_zero_length(data) ==
    IF Len(data) >= 5 /\ data[2] = HID_MARKER
    THEN LET length == data[3]
         IN IF 0 <= length /\ length <= HID_MAX_COMMAND_LENGTH
            THEN DecodeIgnore(SubSeq(data, 5, Min(4 + length, Len(data))))
            ELSE << -1 >>
    ELSE << -1 >>

decode_hid_response(data) ==
    IF Len(data) >= 5 /\ data[2] = HID_MARKER
    THEN LET length == data[3]
         IN IF 0 < length /\ length <= HID_MAX_COMMAND_LENGTH
            THEN DecodeIgnore(Slice(data, 4, 4 + length))
            ELSE None
    ELSE None

\* an input report as pywinusb hands it to the handler: report id, header, payload
DeviceReport(marker, payload) ==
    <<0, marker, Len(payload), 0>> \o payload
    \o [i \in 1..(HID_PACKET_SIZE - 3 - Len(payload)) |-> 0]

-----------------------------------------------------------------------------
(* Response collectors: test_cdc_command, test_hid_command,                  *)
(* test_ble_command_async                                                    *)

LoopCond(waited, timeout) == waited < timeout

\* mutants of the early-exit test: the test for collected lines dropped, inverted
ShouldBreakWithoutData(idle, resp) == idle >= MAX_IDLE_POLLS
ShouldBreakInverted(idle, resp) == idle >= MAX_IDLE_POLLS /\ resp = <<>>

\* if idle_count >= MAX_IDLE_POLLS and responses: break
ShouldBreak(idle, resp) == idle >= MAX_IDLE_POLLS /\ resp # <<>>

\* mutant of the loop over the drained reports: it ends at the first report
\* that does not decode
RECURSIVE HidLinesUntilCorrupt(_)
HidLinesUntilCorrupt(drained) ==
    IF drained = <<>> THEN <<>>
    ELSE LET response == decode_hid_response(Head(drained))
         IN IF response = << -1 >> THEN <<>>
            ELSE (IF response # <<>> THEN TextLines(response) ELSE <<>>)
                 \o HidLinesUntilCorrupt(Tail(drained))

\* lines one poll of test_hid_command appends for the reports it drained
RECURSIVE HidLines(_)
HidLines(drained) ==
    IF drained = <<>> THEN <<>>
    ELSE LET response == decode_hid_response(Head(drained))
         IN (IF response # None /\ response # <<>> THEN TextLines(response) ELSE <<>>)
            \o HidLines(Tail(drained))

\* lines one poll of test_ble_command_async appends for the texts it drained
RECURSIVE BleLines(_)
BleLines(drained) ==
    IF drained = <<>> THEN <<>>
    ELSE TextLines(Head(drained)) \o BleLines(Tail(drained))

\* ble_handle_notification stores the decoded text
BleStored(data) == DecodeReplace(data)

\* the line test_cdc_command gets from readline().decode().strip()
CdcLine(raw) == Strip(DecodeIgnore(raw))

CdcAccepts(line) == line # <<>> /\ line # PROMPT

\* the bytes of a partly read line that decode(errors='ignore') and strip() cannot
\* drop are kept; invalid bytes and leading white space are dropped as they are read
Kept(res) == LStrip(DecodeIgnore(res))

\* lines a chunk contributes when it is collected whole
ChunkLines(ch, c) ==
    CASE ch = "HID" -> HidLines(<<c>>)
      [] ch = "BLE" -> BleLines(<<c>>)
      [] ch = "CDC" -> IF CdcAccepts(CdcLine(c)) THEN <<CdcLine(c)>> ELSE <<>>

(* What the channel mock can deliver: the k-th chunk that carries a response
   line carries the line made of the k-th letter, so that lines can be told
   apart; the other chunks carry nothing a collector accepts *)

Letter(k) == 96 + k

HidChunks(k) == { DeviceReport(HID_MARKER, <<Letter(k), NL, 32>>),  \* "a\n "
                  DeviceReport(0, <<Letter(k)>>) }                  \* bad marker
BleChunks(k) == { BleStored(<<Letter(k), NL>>),                     \* "a\n"
                  BleStored(<<32, NL>>) }                           \* " \n"
CdcChunks(k) == { <<Letter(k), NL>>,                                \* "a\n"
                  <<62, 32>>,                                       \* "> " (prompt, no terminator)
                  <<255>> }                                         \* a byte that is not UTF-8

Chunks(ch, k) ==
    CASE ch = "HID" -> HidChunks(k)
      [] ch = "BLE" -> BleChunks(k)
      [] ch = "CDC" -> CdcChunks(k)

\* values of hist: nothing delivered since the buffer was cleared; exactly one chunk, carrying
\* lines, delivered less than one poll interval before the time-out; anything else
NothingYet == [what |-> "nothing", lines |-> <<>>]
Other == [what |-> "other", lines |-> <<>>]

Looping == pc \in {"check", "poll", "readline"}

InLastInterval ==
    /\ Looping
    /\ elapsed >= timeout_sec - POLL_INTERVAL
    /\ elapsed < timeout_sec

-----------------------------------------------------------------------------
(* Command classes and the verdict of compare_responses *)

\* the None a channel's result is when the channel was not tested
NotAvailable == << None >>

\* mutants of the classification: the command is not stripped; a "*" anywhere
\* in the command counts
is_scpi_command_unstripped(cmd) == cmd # <<>> /\ Head(cmd) = 42
is_scpi_command_anywhere(cmd) == \E i \in 1..Len(cmd) : cmd[i] = 42

\* cmd.strip().startswith('*')
is_scpi_command(cmd) == Strip(cmd) # <<>> /\ Head(Strip(cmd)) = 42

\* set(line.strip() for line in resp if line.strip())
LineSet(resp) ==
    {Strip(resp[i]) : i \in {j \in 1..Len(resp) : Strip(resp[j]) # <<>>}}

\* mutant of the text under a heading: the command type is not looked at
NoteIgnoringType(resp, is_scpi, monitoring) ==
    IF resp = NotAvailable THEN "not shown"
    ELSE IF resp # <<>> THEN "lines"
    ELSE IF monitoring THEN "no response"
    ELSE "no response (expected)"

\* what is printed under a channel's heading
Note(resp, is_scpi, monitoring) ==
    IF resp = NotAvailable THEN "not shown"
    ELSE IF resp # <<>> THEN "lines"
    ELSE IF monitoring THEN "no response"
    ELSE IF is_scpi THEN "no response (anomaly)"
    ELSE "no response (expected)"

\* mutant of the test of the elif: only a listed, empty CDC set counts
CdcMissingWhenListed(responses_dict) ==
    "CDC" \in DOMAIN responses_dict /\ responses_dict["CDC"] = {}

\* elif 'CDC' not in responses_dict or not responses_dict['CDC']
CdcMissing(responses_dict) ==
    "CDC" \notin DOMAIN responses_dict \/ responses_dict["CDC"] = {}

\* mutant of the comparison of the sets: only their sizes are compared
all_same_size(responses_dict) ==
    \A c, d \in DOMAIN responses_dict :
        Cardinality(responses_dict[c]) = Cardinality(responses_dict[d])

\* all(s == response_sets[0] for s in response_sets)
all_same(responses_dict) ==
    \A c, d \in DOMAIN responses_dict : responses_dict[c] = responses_dict[d]

\* mutant of the routing test: one silent channel is enough
RoutedCorrectlyEither(has_hid, has_ble) == ~has_hid \/ ~has_ble

\* if not has_hid and not has_ble
RoutedCorrectly(has_hid, has_ble) == ~has_hid /\ ~has_ble

\* name1 < name2 on the three channel names
NameBefore(n1, n2) == <<n1, n2>> \in {<<"BLE", "CDC">>, <<"BLE", "HID">>, <<"CDC", "HID">>}

compare_responses(cdc, hid, ble, cmd) ==
    LET is_scpi == is_scpi_command(cmd)
        given == [c \in Channels |->
                    CASE c = "CDC" -> cdc [] c = "HID" -> hid [] c = "BLE" -> ble]
        responses_dict ==
            [c \in {x \in Channels : given[x] # NotAvailable /\ given[x] # <<>>}
                |-> LineSet(given[c])]
        has(c) == c \in DOMAIN responses_dict /\ responses_dict[c] # {}
        unexpected == {c \in {"HID", "BLE"} : has(c)}
    IN [ type |-> IF is_scpi THEN "SCPI" ELSE "General",
         cdc |-> Note(cdc, is_scpi, TRUE),
         hid |-> Note(hid, is_scpi, FALSE),
         ble |-> Note(ble, is_scpi, FALSE),
         verdict |->
            IF is_scpi
            THEN IF Cardinality(DOMAIN responses_dict) >= 2
                 THEN IF all_same(responses_dict) THEN "SCPI consistent" ELSE "SCPI differ"
                 ELSE "none"
            ELSE IF has("CDC")
                 THEN IF RoutedCorrectly(has("HID"), has("BLE"))
                      THEN "General routed to CDC only"
                      ELSE "General unexpected response"
                 ELSE IF CdcMissing(responses_dict) THEN "General CDC no response"
                      ELSE "none",
         unexpected |-> IF ~is_scpi /\ has("CDC") THEN unexpected ELSE {},
         only_in |->
            IF is_scpi /\ Cardinality(DOMAIN responses_dict) >= 2 /\ ~all_same(responses_dict)
            THEN {<<c, d>> \in (DOMAIN responses_dict) \X (DOMAIN responses_dict) :
                    NameBefore(c, d) /\ responses_dict[c] \ responses_dict[d] # {}}
            ELSE {} ]

NoReport == [type |-> "none", cdc |-> "not shown", hid |-> "not shown",
             ble |-> "not shown", verdict |-> "none", unexpected |-> {},
             only_in |-> {}]

\* the response lists compare_responses can be handed: None, or stripped lines
RECURSIVE ListsUpTo(_, _)
ListsUpTo(S, n) ==
    IF n = 0 THEN {<<>>}
    ELSE ListsUpTo(S, n - 1)
         \cup {Append(l, x) : l \in {m \in ListsUpTo(S, n - 1) : Len(m) = n - 1}, x \in S}

ResponseLists == {NotAvailable} \cup ListsUpTo({<<Letter(1)>>, <<Letter(2)>>}, MaxLines)

-----------------------------------------------------------------------------
(* The device: routing rules v2.2 *)

\* SCPI commands are answered on the interface they came from, general
\* commands on CDC
Route(r) == IF is_scpi_command(commands[r.k]) THEN r.from ELSE "CDC"

\* the text of the answer names the command it answers: interface and index
ResponseText(from, k) ==
    << (CASE from = "CDC" -> 67 [] from = "HID" -> 72 [] from = "BLE" -> 66), 48 + k >>

\* on CDC the console may print its prompt after the answer
ResponseChunks(to, r) ==
    CASE to = "CDC" -> { ResponseText(r.from, r.k) \o <<NL>>,
                         ResponseText(r.from, r.k) \o <<NL>> \o PROMPT \o <<32>> }
      [] to = "HID" -> { DeviceReport(HID_MARKER, ResponseText(r.from, r.k)) }
      [] to = "BLE" -> { BleStored(ResponseText(r.from, r.k) \o <<NL>>) }

-----------------------------------------------------------------------------
(* Actions of one collector invocation *)

\* something is waiting: the collector asleep or in a read that has no byte
\* to return, or test_all_interfaces asleep between two calls
Blocked ==
    /\ left > 0
    /\ \/ pc \in {"send", "settle", "check", "idle"}
       \/ pc = "readline" /\ buf["CDC"] = <<>>

\* the channel delivers a chunk while time passes: the serial driver buffers bytes,
\* on_hid_data_handler / ble_handle_notification appends under the lock
Deliver ==
    /\ pc = "clear" \/ Blocked
    /\ \E c \in Chunks(chan, nData + 1) :
        /\ ChunkLines(chan, c) # <<>> => nData < MaxChunks
        /\ IF chan = "CDC"
           THEN /\ Len(acc) + Len(buf[chan]) + Len(c) <= MaxBuf + 1
                /\ buf' = [buf EXCEPT ![chan] = @ \o c]
           ELSE /\ Len(buf[chan]) < MaxBuf
                /\ buf' = [buf EXCEPT ![chan] = Append(@, c)]
        /\ nData' = IF ChunkLines(chan, c) # <<>> THEN nData + 1 ELSE nData
        /\ hist' = IF pc = "clear" THEN hist
                   ELSE IF hist = NothingYet /\ InLastInterval /\ ChunkLines(chan, c) # <<>>
                        THEN [what |-> "late", lines |-> ChunkLines(chan, c)]
                        ELSE Other
    /\ UNCHANGED <<collector, silent, polled, outside>>

Tick ==
    /\ Blocked
    /\ left' = left - 1
    /\ elapsed' = IF Looping THEN Min(elapsed + 1, timeout_sec + 1) ELSE elapsed
    /\ sched' = IF sched = <<>> THEN sched
                ELSE [sched EXCEPT ![1] = [@ EXCEPT !.delay = @ - 1]]
    /\ UNCHANGED <<chan, pc, timeout_sec, idle_count, responses, acc, buf, history>>
    /\ UNCHANGED <<driver, pending, threads, codec, exercise, opened, standalone, poll_interval, intervals, schedule, run, first>>

\* mutant of the lock: acquiring never waits
LockIgnored(l) == TRUE

\* a threading.Lock can be acquired when nobody holds it
LockFree(l) == l = "free"

\* mutant of the clearing: the command is sent with the buffer as it was
ClearBufferKeepingChunks ==
    /\ pc = "clear"
    /\ LockFree(lock)
    /\ pc' = "send"
    /\ left' = IF chan = "CDC" THEN PRE_READ_DELAY ELSE 0
    /\ UNCHANGED <<chan, timeout_sec, elapsed, idle_count, responses, acc, buf, history, outside>>

\* reset_input_buffer() / received_hid_data = [] / received_ble_data.clear()
ClearBuffer ==
    /\ pc = "clear"
    /\ LockFree(lock)
    /\ buf' = [buf EXCEPT ![chan] = <<>>]
    /\ pc' = "send"
    /\ left' = IF chan = "CDC" THEN PRE_READ_DELAY ELSE 0
    /\ UNCHANGED <<chan, timeout_sec, elapsed, idle_count, responses, acc, history, outside>>

\* ser.write / out_report.send / write_gatt_char succeed: the device has the command
SendOk ==
    /\ pc = "send" /\ left = 0
    /\ pc' = "settle"
    /\ left' = COMMAND_RESPONSE_DELAY
    /\ pending' = pending \cup {[from |-> chan, k |-> cmdIdx]}
    /\ UNCHANGED <<chan, timeout_sec, elapsed, idle_count, responses, acc, buf, history>>
    /\ UNCHANGED <<driver, threads, mock, codec, exercise, opened, standalone>>

\* ser.write / out_report.send / write_gatt_char raise
SendFail ==
    /\ pc = "send" /\ left = 0
    /\ pc' = "raised"
    /\ UNCHANGED <<chan, left, timeout_sec, elapsed, idle_count, responses, acc, buf,
                   history, outside>>

\* responses = []; idle_count = 0; start_time = time.time()
StartLoop ==
    /\ pc = "settle" /\ left = 0
    /\ responses' = <<>>
    /\ idle_count' = 0
    /\ elapsed' = 0
    /\ pc' = "check"
    /\ UNCHANGED <<chan, left, timeout_sec, acc, buf, history, outside>>

\* while (time.time() - start_time) < timeout_sec
LoopCheck ==
    /\ pc = "check" /\ left = 0
    /\ pc' = IF LoopCond(elapsed, timeout_sec) THEN "poll" ELSE "done"
    /\ UNCHANGED <<chan, left, timeout_sec, elapsed, idle_count, responses, acc, buf,
                   history, outside>>

\* the else branch shared by the three loops
IdlePoll ==
    /\ idle_count' = idle_count + 1
    /\ silent' = IF silent < 0 THEN silent ELSE Min(silent + 1, MAX_IDLE_POLLS)
    /\ IF ShouldBreak(idle_count + 1, responses)
       THEN pc' = "done" /\ UNCHANGED left
       ELSE pc' = "check" /\ left' = poll_interval
    /\ UNCHANGED <<responses, acc>>

\* mutant of the if branch: the lines of a poll are put in front
DataPollNewestFirst(data) ==
    /\ responses' = (IF chan = "HID" THEN HidLines(data) ELSE BleLines(data)) \o responses
    /\ idle_count' = 0
    /\ silent' = 0
    /\ pc' = "check"
    /\ left' = poll_interval
    /\ UNCHANGED acc

\* the if branch of the HID and BLE loops
DataPoll(data) ==
    /\ responses' = responses \o (IF chan = "HID" THEN HidLines(data) ELSE BleLines(data))
    /\ idle_count' = 0
    /\ silent' = 0
    /\ pc' = "check"
    /\ left' = poll_interval
    /\ UNCHANGED acc

\* one iteration of the loop of test_hid_command; the with block is one step
hid_poll ==
    /\ pc = "poll" /\ chan = "HID"
    /\ LockFree(lock)
    /\ IF buf["HID"] # <<>>
       THEN DataPoll(buf["HID"]) /\ buf' = [buf EXCEPT !["HID"] = <<>>]
       ELSE IdlePoll /\ UNCHANGED buf
    /\ polled' = TRUE
    /\ UNCHANGED <<chan, timeout_sec, elapsed, nData, hist, outside>>

\* one iteration of the loop of test_ble_command_async; the with block is one step
ble_poll ==
    /\ pc = "poll" /\ chan = "BLE"
    /\ LockFree(lock)
    /\ IF buf["BLE"] # <<>>
       THEN DataPoll(buf["BLE"]) /\ buf' = [buf EXCEPT !["BLE"] = <<>>]
       ELSE IdlePoll /\ UNCHANGED buf
    /\ polled' = TRUE
    /\ UNCHANGED <<chan, timeout_sec, elapsed, nData, hist, outside>>

\* if ser.in_waiting > 0: line = ser.readline()... else: the idle branch
cdc_poll ==
    /\ pc = "poll" /\ chan = "CDC"
    /\ IF Len(buf["CDC"]) > 0
       THEN /\ pc' = "readline"
            /\ acc' = <<>>
            /\ left' = READ_TIMEOUT
            /\ silent' = 0
            /\ UNCHANGED <<idle_count, responses>>
       ELSE IdlePoll
    /\ polled' = TRUE
    /\ UNCHANGED <<chan, timeout_sec, elapsed, buf, nData, hist, outside>>

\* the end of readline(): .decode('utf-8', errors='ignore').strip(), then the test
CdcLineRead(res) ==
    /\ IF CdcAccepts(CdcLine(res))
       THEN responses' = Append(responses, CdcLine(res)) /\ idle_count' = 0
       ELSE UNCHANGED <<responses, idle_count>>
    /\ acc' = <<>>
    /\ pc' = "check"
    /\ left' = 0

\* readline() reads byte by byte, each read(1) under the port's read timeout,
\* and returns at the line terminator
cdc_read_byte ==
    /\ pc = "readline" /\ buf["CDC"] # <<>>
    /\ buf' = [buf EXCEPT !["CDC"] = Tail(@)]
    /\ IF Head(buf["CDC"]) = NL
       THEN CdcLineRead(Append(acc, NL))
       ELSE /\ acc' = Kept(Append(acc, Head(buf["CDC"])))
            /\ left' = READ_TIMEOUT
            /\ UNCHANGED <<pc, responses, idle_count>>
    /\ UNCHANGED <<chan, timeout_sec, elapsed, history, outside>>

\* a read(1) that times out ends readline() with what it has
cdc_read_timeout ==
    /\ pc = "readline" /\ buf["CDC"] = <<>> /\ left = 0
    /\ CdcLineRead(acc)
    /\ UNCHANGED <<chan, timeout_sec, elapsed, buf, history, outside>>

CollectorStep ==
    \/ ClearBuffer
    \/ SendOk
    \/ SendFail
    \/ StartLoop
    \/ LoopCheck
    \/ hid_poll
    \/ ble_poll
    \/ cdc_poll
    \/ cdc_read_byte
    \/ cdc_read_timeout

\* return responses
Returned == pc = "done"

\* no collector is running, and nothing of its last invocation is left
CollectorIdle ==
    /\ pc = "idle"
    /\ left = 0
    /\ elapsed = 0
    /\ idle_count = 0
    /\ responses = <<>>
    /\ acc = <<>>
    /\ silent = -1
    /\ polled = FALSE

NoChannelMock == nData = 0 /\ hist = NothingYet

NoDriver ==
    /\ dpc = "off"
    /\ avail = Channels
    /\ cmdIdx = 1
    /\ cdc_resp = NotAvailable /\ hid_resp = NotAvailable /\ ble_resp = NotAvailable
    /\ report = NoReport
    /\ ble_notifications_setup = FALSE /\ notify_calls = <<>>
    /\ exercised = {}

NoThreads ==
    /\ lock = "free"
    /\ hpc = "idle"
    /\ hchunk = <<>>
    /\ current_data = <<>>
    /\ appended = <<>>
    /\ returned = <<>>

NoCodec ==
    /\ hid_cmd = <<>>
    /\ packet = <<>>
    /\ decoded = None
    /\ cpc = "off"

NoLine ==
    /\ command = <<>>
    /\ command_type = "none"
    /\ written = None
    /\ writer = "none"

NoMain == opened = {}

NoStandalone ==
    /\ fpc = "idle" /\ port = 0 /\ handle = 0
    /\ use_0xA1_protocol = FALSE /\ result = None

NoSchedule ==
    /\ poll_interval = POLL_INTERVAL
    /\ intervals = <<POLL_INTERVAL, POLL_INTERVAL>>
    /\ schedule = <<>>
    /\ sched = <<>>
    /\ run = 1
    /\ first = <<>>

Init ==
    /\ chan \in Channels
    /\ pc = "clear"
    /\ left = 0
    /\ timeout_sec \in Timeouts
    /\ elapsed = 0
    /\ idle_count = 0
    /\ responses = <<>>
    /\ buf = [c \in Channels |-> <<>>]
    /\ acc = <<>>
    /\ silent = -1
    /\ polled = FALSE
    /\ pending = {}
    /\ NoChannelMock /\ NoLine /\ NoMain /\ NoStandalone /\ NoDriver /\ NoThreads /\ NoSchedule /\ NoCodec

Next ==
    \/ Deliver
    \/ Tick
    \/ CollectorStep

Spec == Init /\ [][Next]_vars

\* the collector's thread keeps running, and time passes again and again
\* (no infinity of deliveries within one tick); nothing else is assumed of
\* the channel
LiveSpec == Spec /\ WF_vars(CollectorStep) /\ SF_vars(Tick)

-----------------------------------------------------------------------------
(* test_all_interfaces: the commands one after the other, each on every
   interface in turn, then compare_responses *)

NumCommands == Min(MaxCommands, Len(commands))

\* timeout_sec is left to its default; the model runs it with the bound
DefaultTimeout == MaxTimeout

Stage(c) == CASE c = "CDC" -> "cdc" [] c = "HID" -> "hid" [] c = "BLE" -> "ble"
\* the comparison right after the HID collector
AfterWithoutBle(c) == CASE c = "CDC" -> "hid" [] c = "HID" -> "compare" [] c = "BLE" -> "compare"

After(c) == CASE c = "CDC" -> "hid" [] c = "HID" -> "ble" [] c = "BLE" -> "compare"

\* xxx_resp = value, for the interface c
SetResp(c, value) ==
    /\ cdc_resp' = IF c = "CDC" THEN value ELSE cdc_resp
    /\ hid_resp' = IF c = "HID" THEN value ELSE hid_resp
    /\ ble_resp' = IF c = "BLE" THEN value ELSE ble_resp

Resp(c) == CASE c = "CDC" -> cdc_resp [] c = "HID" -> hid_resp [] c = "BLE" -> ble_resp

\* mutant of the setup: a failed subscription leaves ble_client as it was
setup_keeping_ble_client ==
    /\ dpc = "setup"
    /\ IF "BLE" \in avail
       THEN \/ /\ ble_notifications_setup' = TRUE
               /\ notify_calls' = Append(notify_calls, "start_notify")
            \/ UNCHANGED <<ble_notifications_setup, notify_calls>>
       ELSE UNCHANGED <<ble_notifications_setup, notify_calls>>
    /\ dpc' = "cdc"
    /\ UNCHANGED <<avail, cmdIdx, results, report, exercised>>
    /\ UNCHANGED <<collector, buf, history, pending, threads, mock, codec, exercise, opened, standalone>>

\* ble_notifications_setup = setup_ble_notifications_async(ble_client): True
\* when start_notify went through, False when the client is not connected or
\* start_notify raised; on False ble_client = None
setup_ble_notifications ==
    /\ dpc = "setup"
    /\ IF "BLE" \in avail
       THEN \/ /\ ble_notifications_setup' = TRUE
               /\ notify_calls' = Append(notify_calls, "start_notify")
               /\ UNCHANGED avail
            \/ /\ ble_notifications_setup' = FALSE
               /\ avail' = avail \ {"BLE"}
               /\ UNCHANGED notify_calls
       ELSE UNCHANGED <<ble_notifications_setup, notify_calls, avail>>
    /\ dpc' = "cdc"
    /\ UNCHANGED <<cmdIdx, results, report, exercised>>
    /\ UNCHANGED <<collector, buf, history, pending, threads, mock, codec, exercise, opened, standalone>>

\* if ser: cdc_resp = test_cdc_command(ser, cmd), and the same for HID and BLE
test_channel(c) ==
    /\ dpc = Stage(c) /\ pc = "idle" /\ left = 0
    /\ IF c \in avail
       THEN /\ chan' = c
            /\ pc' = "clear"
            /\ timeout_sec' = DefaultTimeout
            /\ dpc' = "running"
            /\ exercised' = exercised \cup {<<c, cmdIdx>>}
       ELSE /\ dpc' = After(c)
            /\ UNCHANGED <<chan, pc, timeout_sec, exercised>>
    /\ UNCHANGED <<left, elapsed, idle_count, responses, acc, buf, history>>
    /\ UNCHANGED <<avail, cmdIdx, results, report, ble_notifications_setup, notify_calls>>
    /\ UNCHANGED <<pending, threads, mock, codec, exercise, opened, standalone>>

\* return responses; then time.sleep(MULTI_INTERFACE_DELAY)
collector_returns ==
    /\ dpc = "running" /\ pc = "done"
    /\ SetResp(chan, responses)
    /\ dpc' = After(chan)
    /\ pc' = "idle"
    /\ left' = MULTI_INTERFACE_DELAY
    /\ responses' = <<>> /\ idle_count' = 0 /\ elapsed' = 0
    /\ silent' = -1 /\ polled' = FALSE
    /\ UNCHANGED <<chan, timeout_sec, acc, buf, nData, hist>>
    /\ UNCHANGED <<avail, cmdIdx, report, ble_notifications_setup, notify_calls, exercised>>
    /\ UNCHANGED <<pending, threads, mock, codec, exercise, opened, standalone>>

\* test_ble_command_async finds the client not connected and returns None
ble_not_connected ==
    /\ dpc = "ble" /\ pc = "idle" /\ left = 0
    /\ "BLE" \in avail
    /\ SetResp("BLE", NotAvailable)
    /\ exercised' = exercised \cup {<<"BLE", cmdIdx>>}
    /\ dpc' = "compare"
    /\ left' = MULTI_INTERFACE_DELAY
    /\ UNCHANGED <<chan, pc, timeout_sec, elapsed, idle_count, responses, acc, buf, history>>
    /\ UNCHANGED <<avail, cmdIdx, report, ble_notifications_setup, notify_calls>>
    /\ UNCHANGED <<pending, threads, mock, codec, exercise, opened, standalone>>

\* test_ble_command: except Exception: ... return None
ble_exception_caught ==
    /\ dpc = "running" /\ pc = "raised" /\ chan = "BLE"
    /\ SetResp("BLE", NotAvailable)
    /\ dpc' = "compare"
    /\ pc' = "idle"
    /\ left' = MULTI_INTERFACE_DELAY
    /\ UNCHANGED <<chan, timeout_sec, elapsed, idle_count, responses, acc, buf, history>>
    /\ UNCHANGED <<avail, cmdIdx, report, ble_notifications_setup, notify_calls, exercised>>
    /\ UNCHANGED <<pending, threads, mock, codec, exercise, opened, standalone>>

\* nothing in test_cdc_command, test_hid_command or the for loop catches what
\* ser.write / out_report.send raises: control goes to the finally clause
exception_propagates ==
    /\ dpc = "running" /\ pc = "raised" /\ chan # "BLE"
    /\ dpc' = "unwinding"
    /\ pc' = "idle"
    /\ UNCHANGED <<chan, left, timeout_sec, elapsed, idle_count, responses, acc, buf, history>>
    /\ UNCHANGED <<avail, cmdIdx, results, report, ble_notifications_setup, notify_calls, exercised>>
    /\ UNCHANGED <<pending, threads, mock, codec, exercise, opened, standalone>>

\* compare_responses(cdc_resp, hid_resp, ble_resp, cmd); time.sleep(TEST_COMMAND_DELAY)
compare ==
    /\ dpc = "compare" /\ pc = "idle" /\ left = 0
    /\ report' = compare_responses(cdc_resp, hid_resp, ble_resp, commands[cmdIdx])
    /\ dpc' = "delay"
    /\ left' = TEST_COMMAND_DELAY
    /\ UNCHANGED <<chan, pc, timeout_sec, elapsed, idle_count, responses, acc, buf, history>>
    /\ UNCHANGED <<avail, cmdIdx, results, ble_notifications_setup, notify_calls, exercised>>
    /\ UNCHANGED <<pending, threads, mock, codec, exercise, opened, standalone>>

\* for cmd in commands: cdc_resp = None; hid_resp = None; ble_resp = None
next_command ==
    /\ dpc = "delay" /\ pc = "idle" /\ left = 0
    /\ IF cmdIdx < NumCommands
       THEN /\ cmdIdx' = cmdIdx + 1
            /\ cdc_resp' = NotAvailable /\ hid_resp' = NotAvailable /\ ble_resp' = NotAvailable
            /\ dpc' = "cdc"
       ELSE /\ dpc' = "finally"
            /\ UNCHANGED <<cmdIdx, results>>
    /\ UNCHANGED <<avail, report, ble_notifications_setup, notify_calls, exercised>>
    /\ UNCHANGED <<collector, buf, history, pending, threads, mock, codec, exercise, opened, standalone>>

\* the finally clause calls cleanup_ble_notifications_async for every client
CleanupAlways == TRUE

\* if ble_client and ble_notifications_setup and loop
CleanupDue == "BLE" \in avail /\ ble_notifications_setup

\* finally: cleanup_ble_notifications_async returns at once when the client is
\* not connected any more, and swallows the BleakError of stop_notify; an
\* exception on its way goes on to the caller
finally ==
    /\ dpc \in {"finally", "unwinding"}
    /\ IF CleanupDue
       THEN \/ notify_calls' = Append(notify_calls, "stop_notify")
            \/ UNCHANGED notify_calls
       ELSE UNCHANGED notify_calls
    /\ dpc' = IF dpc = "unwinding" THEN "aborted" ELSE "finished"
    /\ UNCHANGED <<avail, cmdIdx, results, report, ble_notifications_setup, exercised>>
    /\ UNCHANGED <<collector, buf, history, pending, threads, mock, codec, exercise, opened, standalone>>

\* the device answers a command it has received, after any delay
DeviceResponds ==
    /\ Blocked
    /\ \E r \in pending :
        /\ pending' = pending \ {r}
        /\ IF Route(r) \notin avail THEN UNCHANGED buf
           ELSE \E c \in ResponseChunks(Route(r), r) :
                IF Route(r) = "CDC"
                THEN /\ Len(acc) + Len(buf["CDC"]) + Len(c) <= MaxBuf + 3
                     /\ buf' = [buf EXCEPT !["CDC"] = @ \o c]
                ELSE /\ Len(buf[Route(r)]) < MaxBuf
                     /\ buf' = [buf EXCEPT ![Route(r)] = Append(@, c)]
    /\ UNCHANGED <<collector, history, driver, threads, mock, codec, exercise, opened, standalone>>

\* the answer to a command finds the receive buffer of its interface full,
\* nothing having read it since the last answers: the answer is lost
DeviceOverflows ==
    /\ Blocked
    /\ \E r \in pending :
        /\ Route(r) \in avail
        /\ \A c \in ResponseChunks(Route(r), r) :
            IF Route(r) = "CDC"
            THEN Len(acc) + Len(buf["CDC"]) + Len(c) > MaxBuf + 3
            ELSE Len(buf[Route(r)]) >= MaxBuf
        /\ pending' = pending \ {r}
    /\ UNCHANGED <<collector, buf, history, driver, threads, mock, codec, exercise, opened, standalone>>

DriverStep ==
    \/ setup_ble_notifications
    \/ \E c \in Channels : test_channel(c)
    \/ collector_returns
    \/ ble_not_connected
    \/ ble_exception_caught
    \/ exception_propagates
    \/ compare
    \/ next_command
    \/ finally

\* main passes the interfaces it found, at least one
InitRun ==
    /\ CollectorIdle
    /\ chan = "CDC"
    /\ timeout_sec = DefaultTimeout
    /\ buf = [c \in Channels |-> <<>>]
    /\ dpc = "setup"
    /\ avail \in SUBSET Channels \ {{}}
    /\ cmdIdx = 1
    /\ cdc_resp = NotAvailable /\ hid_resp = NotAvailable /\ ble_resp = NotAvailable
    /\ report = NoReport
    /\ ble_notifications_setup = FALSE /\ notify_calls = <<>>
    /\ exercised = {}
    /\ pending = {}
    /\ NoChannelMock /\ NoLine /\ NoMain /\ NoStandalone /\ NoThreads /\ NoSchedule /\ NoCodec

NextRun ==
    \/ DriverStep
    \/ CollectorStep
    \/ DeviceResponds
    \/ Tick

SpecRun == InitRun /\ [][NextRun]_vars

-----------------------------------------------------------------------------
(* compare_responses on its own: every combination of results *)

InitCompare ==
    /\ CollectorIdle
    /\ chan = "CDC"
    /\ timeout_sec = DefaultTimeout
    /\ buf = [c \in Channels |-> <<>>]
    /\ dpc = "compare"
    /\ cmdIdx \in 1..Len(commands)
    /\ cdc_resp \in ResponseLists
    /\ hid_resp \in ResponseLists
    /\ ble_resp \in ResponseLists
    /\ avail = {c \in Channels : Resp(c) # NotAvailable}
    /\ report = NoReport
    /\ ble_notifications_setup = FALSE /\ notify_calls = <<>>
    /\ exercised = {}
    /\ pending = {}
    /\ NoChannelMock /\ NoLine /\ NoMain /\ NoStandalone /\ NoThreads /\ NoSchedule /\ NoCodec

NextCompare == compare

SpecCompare == InitCompare /\ [][NextCompare]_vars

-----------------------------------------------------------------------------
(* The callback-fed channels step by step: the delivery callback on its own
   thread, and the with blocks of the collector, one statement at a time *)

CallbackFed == {"HID", "BLE"}

\* pywinusb / bleak calls the callback with a chunk
callback_called ==
    /\ hpc = "idle"
    /\ pc \notin {"done", "raised"}
    /\ nData < MaxChunks
    /\ \E c \in Chunks(chan, nData + 1) : hchunk' = c
    /\ nData' = nData + 1
    /\ hpc' = "acquire"
    /\ UNCHANGED <<collector, buf, silent, hist, polled, driver, pending, mock, codec, exercise, opened, standalone>>
    /\ UNCHANGED <<lock, current_data, appended, returned>>

\* with hid_data_lock: / with ble_data_lock:
callback_acquire ==
    /\ hpc = "acquire"
    /\ LockFree(lock)
    /\ lock' = "callback"
    /\ hpc' = "append"
    /\ UNCHANGED <<collector, buf, history, driver, pending, mock, codec, exercise, opened, standalone>>
    /\ UNCHANGED <<hchunk, current_data, appended, returned>>

\* received_hid_data.append(data) / received_ble_data.append(text)
callback_append ==
    /\ hpc = "append"
    /\ buf' = [buf EXCEPT ![chan] = Append(@, hchunk)]
    /\ appended' = Append(appended, hchunk)
    /\ hpc' = "release"
    /\ UNCHANGED <<collector, history, driver, pending, mock, codec, exercise, opened, standalone>>
    /\ UNCHANGED <<lock, hchunk, current_data, returned>>

\* the end of the callback's with block
callback_release ==
    /\ hpc = "release"
    /\ lock' = "free"
    /\ hpc' = "idle"
    /\ UNCHANGED <<collector, buf, history, driver, pending, mock, codec, exercise, opened, standalone>>
    /\ UNCHANGED <<hchunk, current_data, appended, returned>>

\* the collector moves from one statement to the next
Goto(at, to) ==
    /\ pc = at
    /\ pc' = to
    /\ UNCHANGED <<chan, left, timeout_sec, elapsed, idle_count, responses, acc>>
    /\ UNCHANGED <<history, driver, pending, mock, codec, exercise, opened, standalone, hpc, hchunk>>

\* with hid_data_lock: before the buffer is emptied
clear_acquire ==
    /\ Goto("clear", "clear locked")
    /\ LockFree(lock)
    /\ lock' = "collector"
    /\ UNCHANGED <<buf, current_data, appended, returned>>

\* received_hid_data = [] / received_ble_data.clear()
clear_buffer ==
    /\ Goto("clear locked", "clear unlock")
    /\ buf' = [buf EXCEPT ![chan] = <<>>]
    /\ appended' = <<>>
    /\ UNCHANGED <<lock, current_data, returned>>

clear_release ==
    /\ Goto("clear unlock", "send")
    /\ lock' = "free"
    /\ UNCHANGED <<buf, current_data, appended, returned>>

\* with hid_data_lock: at the top of an iteration
poll_acquire ==
    /\ Goto("poll", "copy")
    /\ LockFree(lock)
    /\ lock' = "collector"
    /\ UNCHANGED <<buf, current_data, appended, returned>>

\* current_data = received_hid_data[:]
poll_copy ==
    /\ Goto("copy", "reset")
    /\ current_data' = buf[chan]
    /\ UNCHANGED <<buf, lock, appended, returned>>

\* received_hid_data = [] / received_ble_data.clear()
poll_reset ==
    /\ Goto("reset", "unlock")
    /\ buf' = [buf EXCEPT ![chan] = <<>>]
    /\ UNCHANGED <<lock, current_data, appended, returned>>

\* mutant of the with block: the loop goes on with the lock held
poll_without_release ==
    /\ Goto("unlock", "process")
    /\ UNCHANGED <<buf, lock, current_data, appended, returned>>

\* the end of the collector's with block
poll_release ==
    /\ Goto("unlock", "process")
    /\ lock' = "free"
    /\ UNCHANGED <<buf, current_data, appended, returned>>

\* if current_data: ... else: ..., and the sleep
poll_process ==
    /\ pc = "process"
    /\ IF current_data # <<>> THEN DataPoll(current_data) ELSE IdlePoll
    /\ returned' = returned \o current_data
    /\ polled' = TRUE
    /\ UNCHANGED <<chan, timeout_sec, elapsed, buf, nData, hist>>
    /\ UNCHANGED <<driver, pending, mock, codec, exercise, opened, standalone, lock, hpc, hchunk, current_data, appended>>

CallbackStep ==
    \/ callback_called
    \/ callback_acquire
    \/ callback_append
    \/ callback_release

LockedCollectorStep ==
    \/ clear_acquire
    \/ clear_buffer
    \/ clear_release
    \/ SendOk
    \/ SendFail
    \/ StartLoop
    \/ LoopCheck
    \/ poll_acquire
    \/ poll_copy
    \/ poll_reset
    \/ poll_release
    \/ poll_process

InitThreads ==
    /\ chan \in CallbackFed
    /\ pc = "clear"
    /\ left = 0
    /\ timeout_sec \in Timeouts
    /\ elapsed = 0
    /\ idle_count = 0
    /\ responses = <<>>
    /\ buf = [c \in Channels |-> <<>>]
    /\ acc = <<>>
    /\ silent = -1
    /\ polled = FALSE
    /\ pending = {}
    /\ NoChannelMock /\ NoLine /\ NoMain /\ NoStandalone /\ NoDriver /\ NoThreads /\ NoSchedule /\ NoCodec

NextThreads ==
    \/ CallbackStep
    \/ LockedCollectorStep
    \/ Tick

SpecThreads == InitThreads /\ [][NextThreads]_vars

\* both threads keep running and time.sleep returns: a statement that can
\* be executed from some point on is executed
LiveThreads ==
    /\ SpecThreads
    /\ WF_vars(CallbackStep)
    /\ WF_vars(LockedCollectorStep)
    /\ WF_vars(Tick)

\* chunks a poll has taken out of the buffer and not yet handed to the loop
InHand == IF pc \in {"unlock", "process"} THEN current_data ELSE <<>>

\* C8: whatever the interleaving of the callback with the collector, the
\* chunks appended since the buffer was cleared are, in order and once each,
\* the chunks the polls have returned, then the chunks a poll holds, then the
\* chunks still in the buffer; and the callback is never inside its with
\* block while the collector is inside one of its own.
C8_NoChunkLostOrRepeated ==
    /\ appended = returned \o InHand \o buf[chan]
    /\ ~(hpc \in {"append", "release"}
         /\ pc \in {"clear locked", "clear unlock", "copy", "reset", "unlock"})

\* the collector has returned after its polls handed over every chunk the
\* callback appended
C8_ChunksReturnedOnce ==
    /\ Returned
    /\ Len(returned) = MaxChunks
    /\ buf[chan] = <<>>

-----------------------------------------------------------------------------
(* Two runs of a callback-fed collector on one schedule of chunks, each with
   its own value of POLL_INTERVAL *)

PollIntervals == {POLL_INTERVAL, 2 * POLL_INTERVAL}

\* delay of the first chunk after the command was sent: during the settle
\* delay, and around the last polls before the time-out
FirstDelays == {4, COMMAND_RESPONSE_DELAY + MaxTimeout - 2,
                COMMAND_RESPONSE_DELAY + MaxTimeout - 1}

\* delay between two chunks: longer than every poll interval; one is longer
\* than MAX_IDLE_POLLS fine polls, one brings a second chunk late in a long run
Gaps == {3, MAX_IDLE_POLLS * POLL_INTERVAL + 1, COMMAND_RESPONSE_DELAY + MaxTimeout - 5}

\* the values of timeout_sec of the two runs; the largest leaves room for an
\* idle exit of the finer run well before the last poll of the coarser
ScheduleTimeouts == Timeouts \cup {MaxTimeout + 2}

Schedules(ch) ==
    UNION { { s \in [1..n -> [delay : FirstDelays \cup Gaps,
                              chunk : UNION {Chunks(ch, i) : i \in 1..n}]] :
                \A i \in 1..n :
                    /\ s[i].delay \in (IF i = 1 THEN FirstDelays ELSE Gaps)
                    /\ s[i].chunk \in Chunks(ch, i) }
            : n \in 1..MaxChunks }

\* the next chunk of the schedule is due
Due == sched # <<>> /\ sched[1].delay = 0 /\ pc \notin {"clear", "send", "done", "raised"}

\* the callback appends the chunk that is due
mock_delivers ==
    /\ Due
    /\ buf' = [buf EXCEPT ![chan] = Append(@, sched[1].chunk)]
    /\ sched' = Tail(sched)
    /\ UNCHANGED <<collector, history, driver, pending, threads, codec, exercise, opened, standalone>>
    /\ UNCHANGED <<poll_interval, intervals, schedule, run, first>>

\* the first run has returned: the second starts on the same schedule
second_run ==
    /\ Returned /\ run = 1
    /\ first' = responses
    /\ run' = 2
    /\ poll_interval' = intervals[2]
    /\ sched' = schedule
    /\ pc' = "clear"
    /\ left' = 0
    /\ responses' = <<>> /\ idle_count' = 0 /\ elapsed' = 0
    /\ silent' = -1 /\ polled' = FALSE
    /\ UNCHANGED <<chan, timeout_sec, acc, buf, nData, hist>>
    /\ UNCHANGED <<driver, pending, threads, codec, exercise, opened, standalone, intervals, schedule>>

PollingStep ==
    \/ ClearBuffer
    \/ SendOk
    \/ SendFail
    \/ StartLoop
    \/ LoopCheck
    \/ hid_poll
    \/ ble_poll

InitSchedule ==
    /\ chan \in CallbackFed
    /\ pc = "clear"
    /\ left = 0
    /\ timeout_sec \in ScheduleTimeouts
    /\ elapsed = 0
    /\ idle_count = 0
    /\ responses = <<>>
    /\ buf = [c \in Channels |-> <<>>]
    /\ acc = <<>>
    /\ silent = -1
    /\ polled = FALSE
    /\ pending = {}
    /\ NoChannelMock /\ NoLine /\ NoMain /\ NoStandalone /\ NoDriver /\ NoThreads /\ NoCodec
    /\ intervals \in {p \in PollIntervals \X PollIntervals : p[1] # p[2]}
    /\ poll_interval = intervals[1]
    /\ schedule \in Schedules(chan)
    /\ sched = schedule
    /\ run = 1
    /\ first = <<>>

\* a chunk that is due is appended before the collector's next statement
NextSchedule ==
    \/ mock_delivers
    \/ ~Due /\ Tick
    \/ ~Due /\ PollingStep
    \/ second_run

SpecSchedule == InitSchedule /\ [][NextSchedule]_vars

Max(a, b) == IF a > b THEN a ELSE b

\* time of arrival of the i-th chunk of the schedule, from start_time
RECURSIVE Arrival(_)
Arrival(i) ==
    IF i = 0 THEN 0 - COMMAND_RESPONSE_DELAY ELSE Arrival(i - 1) + schedule[i].delay

BothRunsReturned == Returned /\ run = 2

\* both poll intervals are smaller than the smallest inter-chunk delay
FinerThanGaps ==
    \A i \in 2..Len(schedule) : Max(intervals[1], intervals[2]) < schedule[i].delay

ArrivesInTime ==
    /\ \A i \in 1..Len(schedule) :
          Arrival(i) <= timeout_sec - Max(intervals[1], intervals[2])
    /\ \A i \in 2..Len(schedule) :
          schedule[i].delay <= MAX_IDLE_POLLS * Min(intervals[1], intervals[2])

-----------------------------------------------------------------------------
(* The framing codec on its own: commands encoded and decoded back, and
   received reports decoded *)

Pad(k) == [i \in 1..k |-> 97]

\* commands: ASCII text, then nothing or a character of two or three bytes
\* ("e" acute, the euro sign), then nothing or one more ASCII character
CodecCommands ==
    { Pad(k) \o special \o tail :
        k \in 0..MaxPad, special \in {<<>>, <<233>>, <<8364>>}, tail \in {<<>>, <<97>>} }

\* contents of a received report after the header
Fills ==
    { [i \in 1..(HID_PACKET_SIZE - 3) |-> 97],
      [i \in 1..(HID_PACKET_SIZE - 3) |-> IF i % 2 = 1 THEN 195 ELSE 169],
      [i \in 1..(HID_PACKET_SIZE - 3) |-> IF i = 1 THEN 255 ELSE 97] }

\* received reports: of any size, with any marker and declared length
Reports ==
    { SubSeq(<<0, marker, length, 0>> \o fill, 1, n) :
        n \in {0, 1, 4, 5, 6, HID_PACKET_SIZE + 1},
        marker \in {HID_MARKER, HID_MARKER - 1, 0},
        length \in {0, 1, 2, HID_MAX_COMMAND_LENGTH, HID_MAX_COMMAND_LENGTH + 1, 255},
        fill \in Fills }

\* packet = encode_hid_command(cmd)
encode ==
    /\ cpc = "encode"
    /\ packet' = encode_hid_command(hid_cmd)
    /\ cpc' = "encoded"
    /\ UNCHANGED <<hid_cmd, decoded>>
    /\ UNCHANGED <<collector, buf, history, driver, pending, threads, mock, exercise, opened, standalone>>

\* response = decode_hid_response(data)
decode ==
    /\ cpc \in {"encoded", "received"}
    /\ decoded' = decode_hid_response(packet)
    /\ cpc' = IF cpc = "encoded" THEN "round trip" ELSE "decoded"
    /\ UNCHANGED <<hid_cmd, packet>>
    /\ UNCHANGED <<collector, buf, history, driver, pending, threads, mock, exercise, opened, standalone>>

InitCodec ==
    /\ CollectorIdle
    /\ chan = "HID"
    /\ timeout_sec = DefaultTimeout
    /\ buf = [c \in Channels |-> <<>>]
    /\ pending = {}
    /\ NoChannelMock /\ NoLine /\ NoMain /\ NoStandalone /\ NoDriver /\ NoThreads /\ NoSchedule
    /\ decoded = None
    /\ \/ cpc = "encode" /\ hid_cmd \in CodecCommands /\ packet = <<>>
       \/ cpc = "received" /\ hid_cmd = <<>> /\ packet \in Reports

NextCodec ==
    \/ encode
    \/ decode

SpecCodec == InitCodec /\ [][NextCodec]_vars

-----------------------------------------------------------------------------
(* A callback-fed collector on chunks of every make: several lines in one
   chunk, a prompt, a line in two chunks, reports with a bad header *)

MaxFrames == 3

\* a report whose length byte is above HID_MAX_COMMAND_LENGTH
BadLengthReport(payload) ==
    <<0, HID_MARKER, HID_MAX_COMMAND_LENGTH + 1, 0>> \o payload
    \o [i \in 1..(HID_PACKET_SIZE - 3 - Len(payload)) |-> 0]

FrameKinds(ch) ==
    {"two lines", "prompt", "first half", "line end"}
    \cup (IF ch = "HID" THEN {"bad marker", "bad length"} ELSE {})

\* the text the device puts in a chunk of a kind, with the letters p and q
FrameText(kind, p, q) ==
    CASE kind = "two lines" -> <<p, NL, q, NL>>
      [] kind = "prompt" -> <<p, NL, 62, 32, NL>>
      [] kind = "first half" -> <<p>>
      [] kind = "line end" -> <<q, NL>>
      [] OTHER -> <<p, NL>>

\* the chunk as the callback stores it, and the text of it that is a response
\* of the device: none when the header of the report is damaged
Frame(ch, kind, p, q) ==
    [ kind |-> kind,
      text |-> IF kind \in {"bad marker", "bad length"} THEN <<>>
               ELSE FrameText(kind, p, q),
      chunk |-> CASE ch = "BLE" -> BleStored(FrameText(kind, p, q))
                  [] kind = "bad marker" -> DeviceReport(0, FrameText(kind, p, q))
                  [] kind = "bad length" -> BadLengthReport(FrameText(kind, p, q))
                  [] OTHER -> DeviceReport(HID_MARKER, FrameText(kind, p, q)) ]

\* the first chunk arrives one poll interval after the loop has started, the
\* others with the chunk before them or some polls later: a burst first,
\* then chunks apart
FirstFrameDelay == COMMAND_RESPONSE_DELAY + POLL_INTERVAL
FrameGaps == {0, 3 * POLL_INTERVAL}

\* the i-th chunk carries the letters 2i-1 and 2i
FrameSchedules(ch) ==
    UNION { { [i \in 1..n |->
                 [delay |-> d[i]] @@ Frame(ch, k[i], Letter(2 * i - 1), Letter(2 * i))] :
                k \in [1..n -> FrameKinds(ch)],
                d \in { e \in [1..n -> FrameGaps \cup {FirstFrameDelay}] :
                          /\ \A i \in 1..n : (e[i] = FirstFrameDelay) <=> (i = 1)
                          /\ \A i \in 2..(n - 1) : e[i] <= e[i + 1] } }
            : n \in 1..MaxFrames }

InitFraming ==
    /\ chan \in CallbackFed
    /\ pc = "clear"
    /\ left = 0
    /\ timeout_sec = DefaultTimeout
    /\ elapsed = 0
    /\ idle_count = 0
    /\ responses = <<>>
    /\ buf = [c \in Channels |-> <<>>]
    /\ acc = <<>>
    /\ silent = -1
    /\ polled = FALSE
    /\ pending = {}
    /\ NoChannelMock /\ NoLine /\ NoMain /\ NoStandalone /\ NoDriver /\ NoThreads /\ NoCodec
    /\ poll_interval = POLL_INTERVAL
    /\ intervals = <<POLL_INTERVAL, POLL_INTERVAL>>
    /\ schedule \in FrameSchedules(chan)
    /\ sched = schedule
    /\ run = 1
    /\ first = <<>>

NextFraming ==
    \/ mock_delivers
    \/ ~Due /\ Tick
    \/ ~Due /\ PollingStep

SpecFraming == InitFraming /\ [][NextFraming]_vars

\* number of chunks of the schedule the polls have taken out of the buffer
Collected == Len(schedule) - Len(sched) - Len(buf[chan])

\* the response text of the first n chunks of the schedule
RECURSIVE TextUpTo(_)
TextUpTo(n) == IF n = 0 THEN <<>> ELSE TextUpTo(n - 1) \o schedule[n].text

\* the lines of the first n chunks, each chunk on its own
RECURSIVE FrameLines(_)
FrameLines(n) ==
    IF n = 0 THEN <<>> ELSE FrameLines(n - 1) \o TextLines(schedule[n].text)

\* the lines of a text that are not the prompt
RECURSIVE WithoutPrompt(_)
WithoutPrompt(lines) ==
    IF lines = <<>> THEN <<>>
    ELSE (IF Head(lines) = PROMPT THEN <<>> ELSE <<Head(lines)>>)
         \o WithoutPrompt(Tail(lines))

\* the logical lines of the whole schedule: the texts of its chunks put
\* together, cut at the line terminators
LogicalLines == WithoutPrompt(TextLines(TextUpTo(Len(schedule))))

\* the letters of a sequence of lines, in order
RECURSIVE Letters(_)
Letters(lines) ==
    IF lines = <<>> THEN <<>>
    ELSE SelectSeq(Head(lines), LAMBDA c : c >= Letter(1)) \o Letters(Tail(lines))

AllCollected == Returned /\ sched = <<>> /\ buf[chan] = <<>>

HasKind(kind) == \E i \in 1..Len(schedule) : schedule[i].kind = kind

-----------------------------------------------------------------------------
(* main around test_all_interfaces, and the user's Ctrl-C while a collector
   is at work: KeyboardInterrupt goes through every finally clause on its
   way out of the program *)

\* mutant of the finally clause of main: only the interfaces that were
\* tested are closed
MainClosesTested(found) == found \cap avail

\* the finally clause of main closes ser, hid_device and ble_client, each if
\* main had found it
MainCloses(found) == found

\* the order of the three if statements
CloseOrder == <<"CDC", "HID", "BLE">>

\* KeyboardInterrupt in a collector: its frame, with responses, is gone
KeyboardInterrupt ==
    /\ dpc = "running"
    /\ pc \in {"clear", "send", "settle", "check", "poll", "readline"}
    /\ dpc' = "unwinding"
    /\ pc' = "idle"
    /\ left' = 0
    /\ responses' = <<>> /\ idle_count' = 0 /\ elapsed' = 0 /\ acc' = <<>>
    /\ silent' = -1 /\ polled' = FALSE
    /\ UNCHANGED <<chan, timeout_sec, buf, nData, hist>>
    /\ UNCHANGED <<avail, cmdIdx, results, report, ble_notifications_setup, notify_calls, exercised>>
    /\ UNCHANGED <<pending, threads, mock, codec, exercise, opened, standalone>>

\* ser.close() / hid_device.close() / ble_client.disconnect()
close ==
    /\ dpc \in {"finished", "aborted"}
    /\ \E i \in 1..3 :
        /\ CloseOrder[i] \in opened \cap MainCloses(opened)
        /\ \A j \in 1..(i - 1) : CloseOrder[j] \notin opened \cap MainCloses(opened)
        /\ opened' = opened \ {CloseOrder[i]}
    /\ UNCHANGED <<collector, buf, history, driver, pending, threads, mock, codec, exercise, standalone>>

\* the end of the program: main returns, or the interrupt leaves it
exit ==
    /\ dpc \in {"finished", "aborted"}
    /\ opened \cap MainCloses(opened) = {}
    /\ dpc' = IF dpc = "finished" THEN "exited" ELSE "interrupted"
    /\ UNCHANGED <<avail, cmdIdx, results, report, ble_notifications_setup, notify_calls, exercised>>
    /\ UNCHANGED <<collector, buf, history, pending, threads, mock, codec, exercise, opened, standalone>>

\* main has opened the interfaces it found, at least one, and calls
\* test_all_interfaces with them
InitAbort ==
    /\ CollectorIdle
    /\ chan = "CDC"
    /\ timeout_sec = DefaultTimeout
    /\ buf = [c \in Channels |-> <<>>]
    /\ dpc = "setup"
    /\ avail \in SUBSET Channels \ {{}}
    /\ opened = avail /\ NoStandalone
    /\ cmdIdx = 1
    /\ cdc_resp = NotAvailable /\ hid_resp = NotAvailable /\ ble_resp = NotAvailable
    /\ report = NoReport
    /\ ble_notifications_setup = FALSE /\ notify_calls = <<>>
    /\ exercised = {}
    /\ pending = {}
    /\ NoChannelMock /\ NoLine /\ NoThreads /\ NoSchedule /\ NoCodec

\* the run on every exit path, the device answering every command during the
\* settle delay of the collector
NextAbort ==
    \/ setup_ble_notifications
    \/ \E c \in Channels : test_channel(c)
    \/ collector_returns
    \/ ble_not_connected
    \/ ble_exception_caught
    \/ exception_propagates
    \/ compare
    \/ next_command
    \/ finally
    \/ ClearBuffer
    \/ SendOk
    \/ SendFail
    \/ pending = {} /\ StartLoop
    \/ LoopCheck
    \/ hid_poll
    \/ ble_poll
    \/ cdc_poll
    \/ cdc_read_byte
    \/ cdc_read_timeout
    \/ pc = "settle" /\ DeviceResponds
    \/ pc = "settle" /\ DeviceOverflows
    \/ Tick
    \/ KeyboardInterrupt
    \/ close
    \/ exit

SpecAbort == InitAbort /\ [][NextAbort]_vars

-----------------------------------------------------------------------------
(* test_hid_command of the first test_all.py (src/test_all.py): a deadline
   that every answer moves, no idle counter.  elapsed counts the time since
   out_report.send(), timeout_sec is the deadline on that clock. *)

LEGACY_TIMEOUT == 20
LEGACY_EXTENSION == 6
LEGACY_SLEEP == 1

\* if response: for some report of the poll
Answered(drained) ==
    \E i \in 1..Len(drained) :
        decode_hid_response(drained[i]) \notin {None, <<>>}

\* out_report.send(); responses = []; timeout = time.time() + 1.0
legacy_send ==
    /\ pc = "send" /\ left = 0
    /\ pending' = pending \cup {[from |-> chan, k |-> cmdIdx]}
    /\ responses' = <<>>
    /\ elapsed' = 0
    /\ timeout_sec' = LEGACY_TIMEOUT
    /\ pc' = "check"
    /\ UNCHANGED <<chan, left, idle_count, acc, buf, history>>
    /\ UNCHANGED <<driver, threads, mock, codec, exercise, opened, standalone>>

\* one iteration of the loop; the with block is one step
legacy_hid_poll ==
    /\ pc = "poll" /\ chan = "HID"
    /\ LockFree(lock)
    /\ responses' = responses \o HidLines(buf["HID"])
    /\ timeout_sec' = IF Answered(buf["HID"]) THEN elapsed + LEGACY_EXTENSION
                      ELSE timeout_sec
    /\ buf' = [buf EXCEPT !["HID"] = <<>>]
    /\ polled' = TRUE
    /\ pc' = "check"
    /\ left' = LEGACY_SLEEP
    /\ UNCHANGED <<chan, elapsed, idle_count, acc, nData, silent, hist, outside>>

\* a report whose text is a blank line: " \n"
BlankReport == DeviceReport(HID_MARKER, <<32, NL>>)

\* the device sends one, within the initial timeout of the command
blank_report_delivered ==
    /\ Blocked /\ chan = "HID"
    /\ elapsed < LEGACY_TIMEOUT
    /\ Len(buf["HID"]) < MaxBuf
    /\ buf' = [buf EXCEPT !["HID"] = Append(@, BlankReport)]
    /\ hist' = Other
    /\ UNCHANGED <<collector, nData, silent, polled, outside>>

LegacyStep ==
    \/ ClearBuffer
    \/ legacy_send
    \/ SendFail
    \/ LoopCheck
    \/ legacy_hid_poll

InitLegacy ==
    /\ chan = "HID"
    /\ pc = "clear"
    /\ left = 0
    /\ timeout_sec = LEGACY_TIMEOUT
    /\ elapsed = 0
    /\ idle_count = 0
    /\ responses = <<>>
    /\ buf = [c \in Channels |-> <<>>]
    /\ acc = <<>>
    /\ silent = -1
    /\ polled = FALSE
    /\ pending = {}
    /\ NoChannelMock /\ NoLine /\ NoMain /\ NoStandalone /\ NoDriver /\ NoThreads /\ NoSchedule /\ NoCodec

NextLegacy ==
    \/ Deliver
    \/ blank_report_delivered
    \/ Tick
    \/ LegacyStep

SpecLegacy == InitLegacy /\ [][NextLegacy]_vars

-----------------------------------------------------------------------------
(* Commands on their own: the classification, and the bytes written to the
   stream interfaces *)

MaxCommandLength == 3

\* space, line feed, "*", "a", "e" acute
CommandCharacters == {32, NL, 42, 97, 233}

Texts == ListsUpTo(CommandCharacters, MaxCommandLength)

EndsWithNewline(text) == text # <<>> /\ text[Len(text)] = NL

\* f"{cmd}\n".encode()
EncodeLine(cmd) == Utf8(cmd \o <<NL>>)

\* if not line.endswith("\n"): line = line + "\n"; line.encode("utf-8")
EncodeStdinLine(text) == Utf8(IF EndsWithNewline(text) THEN text ELSE text \o <<NL>>)

\* what sys.stdin.readline() can return before the end of the input: text
\* with no line feed but a last one
StdinLine(text) ==
    /\ text # <<>>
    /\ \A i \in 1..(Len(text) - 1) : text[i] # NL

\* is_scpi = is_scpi_command(cmd)
classify ==
    /\ command_type = "none"
    /\ command_type' = IF is_scpi_command(command) THEN "SCPI" ELSE "General"
    /\ UNCHANGED <<command, written, writer>>
    /\ UNCHANGED <<collector, buf, history, driver, pending, threads, mock, codec, opened, standalone>>

Write(by, bytes) ==
    /\ writer = "none"
    /\ written' = bytes
    /\ writer' = by
    /\ UNCHANGED <<command, command_type>>
    /\ UNCHANGED <<collector, buf, history, driver, pending, threads, mock, codec, opened, standalone>>

\* ser.write(f"{cmd}\n".encode())
cdc_write == Write("test_cdc_command", EncodeLine(command))

\* client.write_gatt_char(BLE_CHAR_UUID_RX, f"{cmd}\n".encode("utf-8"), response=False)
ble_write == Write("test_ble_command_async", EncodeLine(command))

\* the interactive client: a line of the standard input
ble_client_write ==
    /\ StdinLine(command)
    /\ Write("ble_client.run", EncodeStdinLine(command))

InitCommand ==
    /\ CollectorIdle
    /\ chan = "CDC"
    /\ timeout_sec = DefaultTimeout
    /\ buf = [c \in Channels |-> <<>>]
    /\ pending = {}
    /\ NoChannelMock /\ NoMain /\ NoStandalone /\ NoDriver /\ NoThreads /\ NoSchedule /\ NoCodec
    /\ command \in Texts
    /\ command_type = "none"
    /\ written = None
    /\ writer = "none"

NextCommand ==
    \/ classify
    \/ cdc_write
    \/ ble_write
    \/ ble_client_write

SpecCommand == InitCommand /\ [][NextCommand]_vars

-----------------------------------------------------------------------------
(* Properties of the response collectors *)

\* C1: the polling loop ends before the time-out only when idle_count has
\* reached MAX_IDLE_POLLS and at least one line has been collected; with no
\* line collected it never ends before the time-out.
C1_EarlyExitNeedsIdleAndData ==
    /\ Returned /\ elapsed < timeout_sec
         => idle_count >= MAX_IDLE_POLLS /\ responses # <<>>
    /\ Returned /\ responses = <<>> => elapsed >= timeout_sec

C1_EarlyExitHappens ==
    Returned /\ elapsed < timeout_sec /\ idle_count = MAX_IDLE_POLLS /\ responses # <<>>

\* C2 (as claimed): a single chunk delivered less than one poll interval before
\* the time-out, after a silent channel, is in the returned responses, and the
\* collector does not return before the time-out.
C2_LateChunkCollected ==
    Returned /\ hist.what = "late"
        => elapsed >= timeout_sec /\ responses = hist.lines

\* C3 (as claimed): no poll iteration starts once timeout_sec has elapsed, and
\* every invocation ends, whatever the channel delivers.
C3_CollectorTerminates ==
    /\ [](pc = "poll" => elapsed < timeout_sec)
    /\ <>(pc \in {"done", "raised"})

\* C4 (as claimed): after data and MAX_IDLE_POLLS consecutive silent polls the
\* collector returns at or before the time-out, and strictly before it when
\* MAX_IDLE_POLLS * POLL_INTERVAL < timeout_sec.
C4_SilentAfterAnyData ==
    Returned /\ silent >= MAX_IDLE_POLLS
        => /\ elapsed <= timeout_sec
           /\ MAX_IDLE_POLLS * POLL_INTERVAL < timeout_sec => elapsed < timeout_sec

\* C4 (amended): the same, for data that gave at least one collected line.
C4_SilentAfterCollectedLine ==
    Returned /\ responses # <<>> /\ silent >= MAX_IDLE_POLLS
        => /\ elapsed <= timeout_sec
           /\ MAX_IDLE_POLLS * POLL_INTERVAL < timeout_sec => elapsed < timeout_sec

C4_SilentAfterLineHappens ==
    /\ Returned /\ responses # <<>> /\ silent >= MAX_IDLE_POLLS
    /\ MAX_IDLE_POLLS * POLL_INTERVAL < timeout_sec

-----------------------------------------------------------------------------
(* Properties of test_all_interfaces *)

RunOver == dpc \in {"finished", "aborted"}

\* C6 (as claimed): a collector whose send fails ends without having polled,
\* and the run goes on: when it is over, every command of the list has been
\* exercised on every interface the run was given.
C6_SendFailureContained ==
    /\ pc = "raised" => ~polled
    /\ RunOver => exercised = avail \X (1..NumCommands)

\* C7 (as claimed): every line of the result kept for an interface, for the
\* command under test, answers that command sent on that interface.
C7_NoCrossAttribution ==
    \A c \in Channels :
        Resp(c) # NotAvailable =>
            \A i \in 1..Len(Resp(c)) : Resp(c)[i] = ResponseText(c, cmdIdx)

-----------------------------------------------------------------------------
(* Properties of compare_responses *)

Compared == dpc = "delay"

General == ~is_scpi_command(commands[cmdIdx])

\* C9 (as claimed): for a General command, HID and BLE are each flagged as
\* unexpected whenever their result has lines, whatever CDC returned.
C9_UnexpectedAlwaysFlagged ==
    Compared /\ General =>
        \A c \in {"HID", "BLE"} :
            Resp(c) # NotAvailable /\ Resp(c) # <<>> => c \in report.unexpected

\* C10: for a General command, when CDC was tested and returned no line, the
\* verdict is that CDC did not respond, and "no response" is printed for CDC.
C10_CdcSilenceReported ==
    Compared /\ General /\ cdc_resp = <<>> =>
        report.verdict = "General CDC no response" /\ report.cdc = "no response"

C10_CdcSilenceHappens ==
    /\ Compared /\ General /\ cdc_resp = <<>>
    /\ hid_resp # NotAvailable /\ hid_resp # <<>>
    /\ report.verdict = "General CDC no response"

\* the line sets of the lists handed to compare_responses that have lines
NonEmpty == {c \in Channels : Resp(c) # NotAvailable /\ Resp(c) # <<>>}
Lines(c) == {Resp(c)[i] : i \in 1..Len(Resp(c))}

Shown(c) == CASE c = "CDC" -> report.cdc [] c = "HID" -> report.hid [] c = "BLE" -> report.ble

\* what was printed about a channel, in the words of the verification results:
\* lines are an expected response for CDC and for every channel of an SCPI
\* command, an unexpected one when the channel is named in the verdict; the
\* warning "no response" is an absent expected response unless it says
\* "expected"
Result(c) ==
    CASE Shown(c) = "lines" ->
            IF c = "CDC" \/ report.type = "SCPI" THEN "ExpectedResponsePresent"
            ELSE IF c \in report.unexpected THEN "UnexpectedResponsePresent"
            ELSE "unclassified"
      [] Shown(c) \in {"no response", "no response (anomaly)"} -> "ExpectedResponseAbsent"
      [] Shown(c) = "no response (expected)" -> "UnexpectedResponseAbsent"
      [] OTHER -> "not reported"

VerificationResults == {"ExpectedResponsePresent", "ExpectedResponseAbsent",
                        "UnexpectedResponsePresent", "UnexpectedResponseAbsent"}

\* C11: for a General command, the verdict is "routed to CDC only", with CDC
\* shown as responding and every other tested channel as silent as expected,
\* exactly when CDC returned lines and every other tested channel returned none.
C11_RoutingCorrectIff ==
    Compared /\ General =>
        LET only_cdc ==
                /\ "CDC" \in NonEmpty
                /\ \A c \in {"HID", "BLE"} : Resp(c) # NotAvailable => Resp(c) = <<>>
        IN /\ report.verdict = "General routed to CDC only" <=> only_cdc
           /\ only_cdc =>
                /\ Result("CDC") = "ExpectedResponsePresent"
                /\ \A c \in {"HID", "BLE"} :
                      Resp(c) # NotAvailable => Result(c) = "UnexpectedResponseAbsent"

C11_RoutingCorrectHappens ==
    /\ Compared /\ General
    /\ "CDC" \in NonEmpty /\ hid_resp = <<>> /\ ble_resp = <<>>
    /\ report.verdict = "General routed to CDC only"

\* C12: for an SCPI command, the verdict is "differ" exactly when two channels
\* that returned lines have different sets of lines (order and repetition
\* ignored); when at least two returned lines and all sets are equal the
\* verdict is "consistent"; channels without lines take no part.
C12_MismatchIff ==
    Compared /\ ~General =>
        /\ report.verdict = "SCPI differ"
              <=> \E c, d \in NonEmpty : Lines(c) # Lines(d)
        /\ report.verdict = "SCPI consistent"
              <=> /\ Cardinality(NonEmpty) >= 2
                  /\ \A c, d \in NonEmpty : Lines(c) = Lines(d)

\* two channels returned the same lines in another order, with a repetition,
\* and the third returned nothing
C12_SameSetsHappen ==
    /\ Compared /\ ~General
    /\ Cardinality(NonEmpty) = 2
    /\ \E c, d \in NonEmpty : Resp(c) # Resp(d) /\ Len(Resp(c)) = MaxLines
    /\ \E c \in Channels : Resp(c) = <<>>
    /\ report.verdict = "SCPI consistent"

C14_OneResultPerChannel ==
    Compared =>
        \A c \in Channels :
            Resp(c) # NotAvailable => Result(c) \in VerificationResults

\* C15 (as claimed): when the three collectors have been through, a channel's
\* result is None exactly when the channel is not available, and a channel
\* that is not available is not shown as having returned no response.
C15_NoneOnlyWhenNotAvailable ==
    /\ dpc \in {"compare", "delay"} =>
            \A c \in Channels : Resp(c) = NotAvailable <=> c \notin avail
    /\ Compared =>
            \A c \in Channels : c \notin avail => Shown(c) = "not shown"

-----------------------------------------------------------------------------
(* Properties of the framing codec *)

Encoded == cpc \in {"encoded", "round trip"}

\* the longest beginning of the text whose UTF-8 form has at most
\* HID_MAX_COMMAND_LENGTH bytes
RECURSIVE Fitting(_, _)
Fitting(text, n) ==
    IF Len(Utf8(SubSeq(text, 1, n))) <= HID_MAX_COMMAND_LENGTH
    THEN SubSeq(text, 1, n)
    ELSE Fitting(text, n - 1)

\* a str: a sequence of code points
IsText(x) == \A i \in 1..Len(x) : x[i] \in 0..1114111

\* C16: decoding the report of a non-empty command gives the command back
\* when its UTF-8 form has at most 61 bytes, and otherwise the command cut
\* to what fits in 61 bytes.
C16_RoundTrip ==
    cpc = "round trip" /\ hid_cmd # <<>> =>
        /\ Len(Utf8(hid_cmd)) <= HID_MAX_COMMAND_LENGTH => decoded = hid_cmd
        /\ Len(Utf8(hid_cmd)) > HID_MAX_COMMAND_LENGTH
              => decoded = Fitting(hid_cmd, Len(hid_cmd))

\* a command of exactly 61 bytes, with a character of several bytes at its
\* end, has come back whole
C16_RoundTripAtLimit ==
    /\ cpc = "round trip"
    /\ Len(Utf8(hid_cmd)) = HID_MAX_COMMAND_LENGTH
    /\ hid_cmd[Len(hid_cmd)] > 127
    /\ decoded = hid_cmd

\* C17: decode_hid_response returns None for a report of fewer than 5
\* entries, for a marker other than 0xA1 and for a declared length of 0 or
\* above 61; for every other report it returns a string.
C17_DecodeNoneOrText ==
    cpc = "decoded" =>
        IF \/ Len(packet) < 5
           \/ packet[2] # HID_MARKER
           \/ packet[3] = 0
           \/ packet[3] > HID_MAX_COMMAND_LENGTH
        THEN decoded = None
        ELSE decoded # None /\ IsText(decoded)

\* a report of 5 entries that declares 61 bytes has been decoded to text
C17_ShortReportDecoded ==
    /\ cpc = "decoded"
    /\ Len(packet) = 5 /\ packet[3] = HID_MAX_COMMAND_LENGTH
    /\ decoded # None /\ Len(decoded) = 1

\* C18: the report has the report id and exactly 64 data bytes: 0xA1, the
\* length min(encoded length, 61), 0x00, that many bytes of the UTF-8
\* command, and zeros up to the end.
C18_ReportLayout ==
    Encoded =>
        LET length == Min(Len(Utf8(hid_cmd)), HID_MAX_COMMAND_LENGTH)
        IN /\ Len(packet) = 1 + HID_PACKET_SIZE
           /\ packet[1] = 0
           /\ packet[2] = HID_MARKER
           /\ packet[3] = length
           /\ packet[4] = 0
           /\ \A i \in 1..length : packet[4 + i] = Utf8(hid_cmd)[i]
           /\ \A i \in (5 + length)..(1 + HID_PACKET_SIZE) : packet[i] = 0

\* a command longer than 61 bytes has been encoded
C18_LongCommandEncoded ==
    /\ cpc = "encoded"
    /\ Len(Utf8(hid_cmd)) > HID_MAX_COMMAND_LENGTH
    /\ packet[3] = HID_MAX_COMMAND_LENGTH

\* C19 (as claimed): the length byte of every report built lies in 1..61.
C19_LengthByteInRange ==
    Encoded => packet[3] \in 1..HID_MAX_COMMAND_LENGTH

\* C20 (as claimed): what the caller gets for a command longer than 61 bytes
\* tells it that the command was cut: it is not what the caller gets for the
\* command that ends where the cut was made.
C20_TruncationSignalled ==
    Encoded /\ Len(Utf8(hid_cmd)) > HID_MAX_COMMAND_LENGTH =>
        packet # ReportOf(SubSeq(Utf8(hid_cmd), 1, HID_MAX_COMMAND_LENGTH))

-----------------------------------------------------------------------------
(* Properties of the classification and of the bytes written *)

Classified == command_type # "none"

\* C21: a command is classified as SCPI exactly when its first character
\* that is not white space is "*"; every command gets one of the two classes,
\* the empty command and the commands of white space get General.
C21_ScpiIffFirstNonSpaceIsStar ==
    Classified =>
        /\ command_type \in {"SCPI", "General"}
        /\ command_type = "SCPI" <=>
              \E i \in 1..Len(command) :
                  /\ command[i] = 42
                  /\ \A j \in 1..(i - 1) : IsSpace(command[j])
        /\ (\A i \in 1..Len(command) : IsSpace(command[i])) => command_type = "General"

\* a command with white space before its "*" has been classified as SCPI
C21_StarAfterSpaceIsScpi ==
    /\ Classified
    /\ Len(command) = MaxCommandLength
    /\ IsSpace(command[1]) /\ command[2] = 42
    /\ command_type = "SCPI"

\* C22 (as claimed): a command is classified as SCPI when its text begins
\* with "*", and as General when its first character is not "*".
C22_ScpiIffBeginsWithStar ==
    Classified =>
        (command_type = "SCPI" <=> command # <<>> /\ command[1] = 42)

\* C22 (amended): a command whose text begins with "*" is classified as SCPI;
\* a command whose text, leading white space set aside, does not begin with
\* "*" is classified as General.
C22_BeginsWithStarAfterSpace ==
    Classified =>
        /\ command # <<>> /\ command[1] = 42 => command_type = "SCPI"
        /\ LStrip(command) = <<>> \/ Head(LStrip(command)) # 42
              => command_type = "General"

\* a command with a "*" behind its first letter has been classified as General
C22_StarInsideIsGeneral ==
    /\ Classified
    /\ command # <<>> /\ command[1] = 97
    /\ \E i \in 2..Len(command) : command[i] = 42
    /\ command_type = "General"

\* C23 (as claimed): the bytes written for a command are the whole UTF-8
\* command and end with one line terminator, one being added only when the
\* command does not end with one.
C23_OneTerminator ==
    written # None =>
        LET n == Len(Utf8(command))
        IN /\ SubSeq(written, 1, n) = Utf8(command)
           /\ Len(written) = IF EndsWithNewline(command) THEN n ELSE n + 1
           /\ written[Len(written)] = NL

-----------------------------------------------------------------------------
(* Properties of the lines collected from chunks *)

\* C24 (as claimed): no returned line is empty or is the prompt marker, and
\* every returned line is trimmed.
C24_NoEmptyLineNoPrompt ==
    Returned =>
        \A i \in 1..Len(responses) :
            /\ responses[i] # <<>>
            /\ responses[i] # PROMPT
            /\ Strip(responses[i]) = responses[i]

\* C25 (as claimed): when a line comes in two chunks, the terminator in the
\* second, and every chunk has been collected, the responses are the logical
\* lines of what the device sent.
C25_SplitLineIsOneLine ==
    /\ AllCollected
    /\ \E i \in 1..(Len(schedule) - 1) :
          schedule[i].kind = "first half" /\ schedule[i + 1].kind = "line end"
    /\ ~HasKind("prompt")
    => responses = LogicalLines

\* C27: on HID, the responses are at every moment the lines of the reports
\* collected so far that have a good header, report by report in the order
\* collected: a report with a bad marker or length adds nothing and takes
\* nothing away from the reports drained with it, and nothing is raised.
C27_CorruptReportDropped ==
    chan = "HID" =>
        /\ responses = FrameLines(Collected)
        /\ polled => pc # "raised"

\* a report with a bad header was drained by one poll together with a good
\* report before it and a good report after it, whose lines were returned
C27_CorruptBetweenValid ==
    /\ chan = "HID" /\ AllCollected
    /\ Len(schedule) = 3
    /\ schedule[1].kind = "two lines"
    /\ schedule[2].kind = "bad length" /\ schedule[2].delay = 0
    /\ schedule[3].kind = "two lines" /\ schedule[3].delay = 0
    /\ Len(responses) = 4

\* C28: the letters of the responses are, in order, the letters of the text
\* of the chunks collected so far, chunk after chunk in the order of
\* delivery and within a chunk in the order of the text.
C28_FifoOrder ==
    Letters(responses) = Letters(<<TextUpTo(Collected)>>)

\* two chunks of two lines drained by one poll and a third drained by a later
\* poll have been returned
C28_SamePollAndLaterPoll ==
    /\ AllCollected
    /\ Len(schedule) = 3
    /\ \A i \in 1..3 : schedule[i].kind = "two lines"
    /\ schedule[2].delay = 0 /\ schedule[3].delay > 0
    /\ Len(responses) = 6

-----------------------------------------------------------------------------
(* Properties of the idle counter *)

\* a step that ends one iteration of the polling loop
PollEnds == pc \in {"poll", "readline"} /\ pc' \in {"check", "done"}

\* the poll of that iteration found something in the buffer
FoundData == pc = "readline" \/ buf[chan] # <<>>

\* C29 (as claimed): every iteration whose poll found data leaves idle_count
\* at zero, whatever the data decodes to; every other iteration adds one to
\* idle_count and, unless the loop ends, sleeps one POLL_INTERVAL.
C29_IdleCounterAlwaysMoves ==
    [][ PollEnds =>
          IF FoundData THEN idle_count' = 0
          ELSE /\ idle_count' = idle_count + 1
               /\ pc' = "check" => left' = POLL_INTERVAL ]_vars

-----------------------------------------------------------------------------
(* Properties of the order of the steps of a collector *)

\* C30 (as claimed): the buffer is cleared before the send, and no poll
\* follows the send without a wait: when the collector is about to poll, time
\* has passed since the send.
C30_SettleBeforeFirstPoll ==
    /\ pc = "send" => buf[chan] = <<>>
    /\ pc = "poll" => elapsed > 0

-----------------------------------------------------------------------------
(* Properties of an aborted run *)

Unwinding == dpc \in {"unwinding", "aborted", "interrupted"}

-----------------------------------------------------------------------------
(* Properties of the order of a run *)

\* the collector calls made for the command k, on every available interface
CollectedFor(k) == \A c \in avail : <<c, k>> \in exercised

\* C31: a command is compared only when no collector runs and the collector
\* of every available interface has been called for it; a collector is
\* started only while none runs, CDC before HID before BLE, and only for the
\* command under test, every earlier command having been collected on every
\* interface; what is printed changes only at the comparison; and the loop
\* goes on to the next command only after the current one was compared and
\* printed.
C31_DispatchCollectCompareReport ==
    /\ [](dpc \in {"compare", "delay"} => pc = "idle" /\ CollectedFor(cmdIdx))
    /\ [](pc # "idle" => dpc = "running" /\ <<chan, cmdIdx>> \in exercised)
    /\ [](\A e \in exercised :
            /\ e[2] <= cmdIdx
            /\ e[2] < cmdIdx => CollectedFor(e[2])
            /\ e[1] = "HID" /\ "CDC" \in avail => <<"CDC", e[2]>> \in exercised
            /\ e[1] = "BLE" /\ "HID" \in avail => <<"HID", e[2]>> \in exercised)
    /\ [][pc = "idle" /\ pc' # "idle" =>
            /\ dpc = Stage(chan') /\ dpc' = "running"
            /\ <<chan', cmdIdx>> \notin exercised]_vars
    /\ [][report' # report => dpc = "compare" /\ dpc' = "delay"]_vars
    /\ [][cmdIdx' # cmdIdx =>
            /\ dpc = "delay" /\ cmdIdx' = cmdIdx + 1
            /\ report = compare_responses(cdc_resp, hid_resp, ble_resp, commands[cmdIdx])]_vars

\* the last command has been compared and printed on a device with the three
\* interfaces, each collector having been called once for every command
C31_LastCommandReported ==
    /\ dpc = "delay"
    /\ cmdIdx = NumCommands
    /\ avail = Channels
    /\ exercised = Channels \X (1..NumCommands)
    /\ report = compare_responses(cdc_resp, hid_resp, ble_resp, commands[cmdIdx])
    /\ cdc_resp # NotAvailable /\ hid_resp # NotAvailable /\ ble_resp # NotAvailable

-----------------------------------------------------------------------------
(* Properties of the deadline-extension collector *)

\* C32: the collector returns at its deadline, and the deadline is the
\* initial one unless a line was accepted: a return without accepted lines
\* comes after the whole initial timeout.
C32_ReturnsAtInitialDeadlineWithoutLines ==
    Returned =>
        /\ elapsed >= timeout_sec
        /\ responses = <<>> => timeout_sec = LEGACY_TIMEOUT /\ elapsed >= LEGACY_TIMEOUT

-----------------------------------------------------------------------------
(* Properties of the chunks that were buffered before a command *)

\* C33: the step that leaves the start of a collector empties the receive
\* buffer of its channel and is followed by the send, and a collector to
\* which the channel has delivered nothing since that step returns no line,
\* whatever the buffer held before.
C33_StaleChunksNeverReturned ==
    /\ [][pc = "clear" /\ pc' # "clear" =>
            pc' = "send" /\ buf'[chan] = <<>> /\ responses' = <<>>]_vars
    /\ [](pc = "send" /\ hist = NothingYet => buf[chan] = <<>> /\ acc = <<>>)
    /\ [](Returned /\ hist = NothingYet => responses = <<>>)

\* two chunks with lines had been delivered before the collector cleared the
\* buffer, nothing came after, and the collector has returned no line
C33_StaleChunksDropped ==
    /\ Returned
    /\ nData = MaxChunks
    /\ hist = NothingYet
    /\ responses = <<>>

-----------------------------------------------------------------------------
(* Properties of the lock *)

\* the collector is inside one of its with blocks
CollectorInWith == pc \in {"clear locked", "clear unlock", "copy", "reset", "unlock"}

-----------------------------------------------------------------------------
(* Properties of the BLE notification subscription *)

\* test_all_interfaces has returned or has been left by an exception
RunEnded == dpc \in {"finished", "aborted", "exited", "interrupted"}

\* C35 as the specification states it: when the run is over, on every exit
\* path, start_notify and stop_notify have each gone through once if the
\* subscription succeeded, and neither has otherwise.
C35_StoppedExactlyOnceIffSubscribed ==
    RunEnded =>
        notify_calls = IF ble_notifications_setup
                       THEN <<"start_notify", "stop_notify">>
                       ELSE <<>>

\* C35: start_notify goes through at most once, before any collector call,
\* and exactly when ble_notifications_setup is set; a BLE command is sent
\* only while the subscription is on; stop_notify goes through at most once,
\* only in the finally clause, after the last BLE command, and only if the
\* subscription succeeded.
C35_SubscribedOnceStoppedAtMostOnce ==
    /\ [](notify_calls \in {<<>>, <<"start_notify">>, <<"start_notify", "stop_notify">>})
    /\ [](ble_notifications_setup <=> notify_calls # <<>>)
    /\ [](pc # "idle" /\ chan = "BLE" => notify_calls = <<"start_notify">>)
    /\ [](Len(notify_calls) = 2 => RunEnded)
    /\ [][Len(notify_calls') = 1 /\ notify_calls = <<>> =>
            dpc = "setup" /\ exercised = {}]_vars
    /\ [][Len(notify_calls') = 2 /\ Len(notify_calls) = 1 =>
            dpc \in {"finally", "unwinding"} /\ CleanupDue]_vars

\* the run was left by an exception or an interrupt after the BLE collector
\* had been called, and stop_notify has gone through in the finally clause
C35_StoppedAfterAbort ==
    /\ dpc = "aborted"
    /\ notify_calls = <<"start_notify", "stop_notify">>
    /\ \E k \in 1..NumCommands : <<"BLE", k>> \in exercised

\* C36: after the setup, without a subscription BLE is not among the
\* interfaces of the run: no BLE collector is called for any command and
\* ble_resp stays the not-available value; a failed subscription takes BLE,
\* and nothing else, out of the interfaces; and a run that reaches its end
\* has called the collector of every remaining interface for every command.
C36_FailedSubscriptionDisablesBle ==
    /\ [](dpc # "setup" /\ ~ble_notifications_setup =>
            /\ "BLE" \notin avail
            /\ ble_resp = NotAvailable
            /\ \A e \in exercised : e[1] # "BLE")
    /\ [][dpc = "setup" /\ "BLE" \in avail /\ ~ble_notifications_setup' =>
            avail' = avail \ {"BLE"}]_vars
    /\ [](dpc = "finished" => exercised = avail \X (1..NumCommands))

\* main had found the three interfaces, the subscription failed, and the run
\* has reached its end with CDC and HID exercised for every command
C36_RunWithoutBle ==
    /\ dpc = "finished"
    /\ opened = Channels
    /\ avail = {"CDC", "HID"}
    /\ notify_calls = <<>>
    /\ exercised = {"CDC", "HID"} \X (1..NumCommands)
    /\ ble_resp = NotAvailable
    /\ report.type # "none"

-----------------------------------------------------------------------------
(* Channel discovery: find_cdc_device (and find_esp32_device of test_cdc.py,
   which opens and closes in the same places) tries the candidate ports one
   after the other; find_hid_device tries the first device of the filter.
   Devices are numbered from 1; opened holds the devices that are open. *)

MaxPorts == 4

discovery == <<fpc, port, handle, opened>>

\* everything but the discovery
NotDiscovery ==
    <<collector, buf, history, driver, pending, threads, mock, codec, exercise,
      use_0xA1_protocol, result>>

\* for port in ports: with another candidate left, or print and return None;
\* devices = filter.get_devices(): if devices: device = devices[0], else
\* return None, None
discovery_next ==
    /\ fpc = "next"
    /\ \/ /\ port < (IF chan = "CDC" THEN MaxPorts ELSE 1)
          /\ port' = port + 1
          /\ fpc' = "open"
          /\ UNCHANGED handle
       \/ /\ fpc' = "returned"
          /\ handle' = 0
          /\ UNCHANGED port
    /\ UNCHANGED <<opened, NotDiscovery>>

\* ser = serial.Serial(...) / device.open(): the device is open, or the call
\* raises and the except clause goes on to the next port (CDC) or returns
\* None, None (HID)
device_open ==
    /\ fpc = "open"
    /\ \/ /\ opened' = opened \cup {port}
          /\ fpc' = "probe"
          /\ UNCHANGED handle
       \/ /\ fpc' = IF chan = "CDC" THEN "next" ELSE "returned"
          /\ handle' = 0
          /\ UNCHANGED opened
    /\ UNCHANGED <<port, NotDiscovery>>

\* CDC: ser.dtr = True ... ser.write(b"*IDN?\n"); ser.flush(); one of them
\* may raise SerialException or OSError, and the except clause only prints.
\* HID: device.set_raw_data_handler(...); out_reports =
\* device.find_output_reports(); OSError or AttributeError return None, None;
\* without an output report device.close() and return None, None
device_probe ==
    /\ fpc = "probe"
    /\ IF chan = "CDC"
       THEN /\ fpc' \in {"read", "next"}
            /\ UNCHANGED <<opened, handle>>
       ELSE \/ /\ fpc' = "returned" /\ handle' = port
               /\ UNCHANGED opened
            \/ /\ fpc' = "returned" /\ handle' = 0
               /\ opened' = opened \ {port}
            \/ /\ fpc' = "returned" /\ handle' = 0
               /\ UNCHANGED opened
    /\ UNCHANGED <<port, NotDiscovery>>

\* the read loop of find_cdc_device: a line with one of ESP32_KEYWORDS
\* returns ser; RESPONSE_TIMEOUT without one closes it; in_waiting or
\* readline may raise, and the except clause only prints
cdc_identify ==
    /\ fpc = "read" /\ chan = "CDC"
    /\ \/ /\ fpc' = "returned" /\ handle' = port
          /\ UNCHANGED opened
       \/ /\ fpc' = "next"
          /\ opened' = opened \ {port}
          /\ UNCHANGED handle
       \/ /\ fpc' = "next"
          /\ UNCHANGED <<opened, handle>>
    /\ UNCHANGED <<port, NotDiscovery>>

InitDiscovery ==
    /\ CollectorIdle
    /\ chan \in {"CDC", "HID"}
    /\ timeout_sec = DefaultTimeout
    /\ buf = [c \in Channels |-> <<>>]
    /\ pending = {}
    /\ NoChannelMock /\ NoLine /\ NoDriver /\ NoThreads /\ NoSchedule /\ NoCodec
    /\ use_0xA1_protocol = FALSE /\ result = None
    /\ fpc = "next" /\ port = 0 /\ handle = 0
    /\ opened = {}

NextDiscovery ==
    \/ discovery_next
    \/ device_open
    \/ device_probe
    \/ cdc_identify

SpecDiscovery == InitDiscovery /\ [][NextDiscovery]_vars

\* the devices discovery may leave open: the one it returned
Held == IF handle = 0 THEN {} ELSE {handle}

\* C37: when a discovery function has returned, no device is open but the
\* one it returned.
C37_NothingLeftOpen == fpc = "returned" => opened = Held

-----------------------------------------------------------------------------
(* wait_for_response of test_hid.py: data_handler appends the 64 bytes after
   the report id to received_responses, the loop polls it every POLL_INTERVAL
   of that script (0.1 s) until timeout.  buf["HID"] is received_responses,
   appended the reports that have arrived, returned the reports the polls
   have taken. *)

WAIT_POLL_INTERVAL == 2

\* decode_response_0xA1 checks the same fields as decode_hid_response
decode_response_0xA1(data) == decode_hid_response(data)

\* for data in received_responses: response = decode_response_0xA1([0] +
\* list(data)); if response: responses.append(response)
RECURSIVE Decoded0xA1(_)
Decoded0xA1(drained) ==
    IF drained = <<>> THEN <<>>
    ELSE LET response == decode_response_0xA1(<<0>> \o Head(drained))
         IN (IF response # None /\ response # <<>> THEN <<response>> ELSE <<>>)
            \o Decoded0xA1(Tail(drained))

\* '\n'.join(responses)
RECURSIVE JoinLines(_)
JoinLines(texts) ==
    IF texts = <<>> THEN <<>>
    ELSE IF Len(texts) = 1 THEN Head(texts)
    ELSE Head(texts) \o <<NL>> \o JoinLines(Tail(texts))

\* b''.join(received_responses)
RECURSIVE JoinBytes(_)
JoinBytes(drained) ==
    IF drained = <<>> THEN <<>> ELSE Head(drained) \o JoinBytes(Tail(drained))

\* full_response.rstrip(b'\x00')
RECURSIVE RStripZeros(_)
RStripZeros(raw) ==
    IF raw # <<>> /\ raw[Len(raw)] = 0 THEN RStripZeros(SubSeq(raw, 1, Len(raw) - 1))
    ELSE raw

HexDigit(n) == IF n < 10 THEN 48 + n ELSE 87 + n

\* full_response.hex()
RECURSIVE Hex(_)
Hex(raw) ==
    IF raw = <<>> THEN <<>>
    ELSE <<HexDigit(Head(raw) \div 16), HexDigit(Head(raw) % 16)>> \o Hex(Tail(raw))

\* full_response.decode('ascii'), or the hexadecimal form when it fails
SimpleResponse(drained) ==
    LET raw == RStripZeros(JoinBytes(drained))
    IN IF \A i \in 1..Len(raw) : raw[i] < 128 THEN raw ELSE Hex(raw)

\* the reports of the device: an answer in the 0xA1 framing, a report with
\* another marker, plain text
WaitReports(k) ==
    { DeviceReport(HID_MARKER, <<Letter(k)>>),
      DeviceReport(0, <<Letter(k)>>),
      <<0, Letter(k), NL>> \o [i \in 1..(HID_PACKET_SIZE - 2) |-> 0] }

\* data_handler: payload = data[1:]; with response_lock:
\* received_responses.append(bytes(payload)); the report arrives before the
\* timeout is over
data_handler ==
    /\ pc \in {"check", "poll"}
    /\ elapsed < timeout_sec
    /\ nData < MaxChunks
    /\ \E data \in WaitReports(nData + 1) :
        /\ buf' = [buf EXCEPT !["HID"] = Append(@, Tail(data))]
        /\ appended' = Append(appended, Tail(data))
    /\ nData' = nData + 1
    /\ UNCHANGED <<collector, silent, hist, polled, driver, pending, mock, codec, exercise,
                   opened, standalone>>
    /\ UNCHANGED <<lock, hpc, hchunk, current_data, returned>>

\* one iteration of the loop of wait_for_response; the with block is one step
wait_poll ==
    /\ pc = "poll"
    /\ LockFree(lock)
    /\ polled' = TRUE
    /\ IF buf["HID"] = <<>>
       THEN /\ pc' = "check" /\ left' = WAIT_POLL_INTERVAL
            /\ UNCHANGED <<responses, buf, returned, result>>
       ELSE /\ buf' = [buf EXCEPT !["HID"] = <<>>]
            /\ returned' = returned \o buf["HID"]
            /\ IF use_0xA1_protocol
               THEN /\ responses' = responses \o Decoded0xA1(buf["HID"])
                    /\ IF responses' # <<>>
                       THEN /\ result' = JoinLines(responses')
                            /\ pc' = "done" /\ UNCHANGED left
                       ELSE /\ pc' = "check" /\ left' = WAIT_POLL_INTERVAL
                            /\ UNCHANGED result
               ELSE /\ result' = SimpleResponse(buf["HID"])
                    /\ pc' = "done"
                    /\ UNCHANGED <<left, responses>>
    /\ UNCHANGED <<chan, timeout_sec, elapsed, idle_count, acc, nData, silent, hist>>
    /\ UNCHANGED <<driver, pending, mock, codec, exercise, opened, fpc, port, handle,
                   use_0xA1_protocol>>
    /\ UNCHANGED <<lock, hpc, hchunk, current_data, appended>>

\* wait_for_response(timeout, use_0xA1_protocol) is called
InitWait ==
    /\ chan = "HID"
    /\ pc = "check"
    /\ left = 0
    /\ timeout_sec \in Timeouts
    /\ elapsed = 0
    /\ idle_count = 0
    /\ responses = <<>>
    /\ buf = [c \in Channels |-> <<>>]
    /\ acc = <<>>
    /\ silent = -1
    /\ polled = FALSE
    /\ pending = {}
    /\ NoChannelMock /\ NoLine /\ NoMain /\ NoDriver /\ NoThreads /\ NoSchedule /\ NoCodec
    /\ fpc = "idle" /\ port = 0 /\ handle = 0
    /\ use_0xA1_protocol \in BOOLEAN
    /\ result = None

\* return None is the end of the loop: LoopCheck with result as it is
NextWait ==
    \/ data_handler
    \/ Tick
    \/ LoopCheck
    \/ wait_poll

SpecWait == InitWait /\ [][NextWait]_vars

\* C38: wait_for_response returns None only when the whole timeout has passed
\* and no report (simple protocol), or no report that decodes (0xA1
\* protocol), has arrived during it.
C38_NoneOnlyWithoutReport ==
    Returned /\ result = None =>
        /\ elapsed >= timeout_sec
        /\ IF use_0xA1_protocol THEN Decoded0xA1(appended) = <<>> ELSE appended = <<>>

-----------------------------------------------------------------------------
(* The send paths of test_hid.py: what is handed to
   output_report.set_raw_data.  command is the data or the command string the
   function is called with, written the raw data, None when the function
   hands over nothing. *)

MaxDataLength == 66

\* n entries: letters, letters and a line feed, or a letter with an accent
\* and letters
DataOf(n, shape) ==
    [i \in 1..n |-> IF shape = "line" /\ i = n THEN NL
                    ELSE IF shape = "accent" /\ i = 1 THEN 233
                    ELSE 97]

SendInputs == { DataOf(n, shape) : n \in 0..MaxDataLength, shape \in {"text", "line", "accent"} }

Zeros(n) == [i \in 1..n |-> 0]

\* mutant of the sizing: longer data are handed over whole
PadOnly(data) ==
    IF Len(data) < HID_PACKET_SIZE THEN data \o Zeros(HID_PACKET_SIZE - Len(data))
    ELSE data

\* if len(data) < HID_PACKET_SIZE: data += [0x00] * (HID_PACKET_SIZE - len(data))
\* elif len(data) > HID_PACKET_SIZE: data = data[:HID_PACKET_SIZE]
PadOrCut(data) ==
    IF Len(data) < HID_PACKET_SIZE THEN data \o Zeros(HID_PACKET_SIZE - Len(data))
    ELSE IF Len(data) > HID_PACKET_SIZE THEN Slice(data, 0, HID_PACKET_SIZE)
    ELSE data

\* encode_command_0xA1 of test_hid.py builds the report of encode_hid_command
encode_command_0xA1(cmd_string) == ReportOf(Utf8(cmd_string))

\* if not command.endswith('\n'): command += '\n'
WithNewline(text) == IF EndsWithNewline(text) THEN text ELSE text \o <<NL>>

\* send_data: output_report.set_raw_data([0] + data)
send_data == Write("send_data", <<0>> \o PadOrCut(command))

\* report = device.find_output_reports(); if not report: return False
no_output_report == Write("no output report", None)

\* send_command with the simple protocol: command.encode('ascii') raises
\* UnicodeEncodeError for a character above 127
send_command_simple ==
    IF \E i \in 1..Len(command) : command[i] > 127
    THEN Write("send_command raised", None)
    ELSE Write("send_command", <<0>> \o PadOrCut(WithNewline(command)))

\* send_command with use_0xA1_protocol: output_report.set_raw_data(packet)
send_command_0xA1 == Write("send_command 0xA1", encode_command_0xA1(command))

InitSend ==
    /\ CollectorIdle
    /\ chan = "HID"
    /\ timeout_sec = DefaultTimeout
    /\ buf = [c \in Channels |-> <<>>]
    /\ pending = {}
    /\ NoChannelMock /\ NoMain /\ NoStandalone /\ NoDriver /\ NoThreads /\ NoSchedule /\ NoCodec
    /\ command \in SendInputs
    /\ command_type = "none"
    /\ written = None
    /\ writer = "none"

NextSend ==
    \/ send_data
    \/ no_output_report
    \/ send_command_simple
    \/ send_command_0xA1

SpecSend == InitSend /\ [][NextSend]_vars

\* entry i of the 64 data bytes for the bytes given: the byte, or 0 beyond them
Sized(given, i) == IF i <= Len(given) THEN given[i] ELSE 0

\* C39: whatever is handed to the output report has 65 entries between 0 and
\* 255, the first of them 0; on the paths without framing the 64 others are
\* the first 64 bytes of the input followed by zeros; with the 0xA1 framing
\* they are the marker, the length, a zero and the first 61 bytes of the
\* command followed by zeros.
C39_RawDataHas65Entries ==
    written # None =>
        /\ Len(written) = HID_PACKET_SIZE + 1
        /\ written[1] = 0
        /\ \A i \in 1..Len(written) : written[i] \in 0..255
        /\ writer = "send_data" =>
            \A i \in 1..HID_PACKET_SIZE : written[i + 1] = Sized(command, i)
        /\ writer = "send_command" =>
            \A i \in 1..HID_PACKET_SIZE : written[i + 1] = Sized(WithNewline(command), i)
        /\ writer = "send_command 0xA1" =>
            /\ written[2] = HID_MARKER
            /\ written[3] = Min(Len(Utf8(command)), HID_MAX_COMMAND_LENGTH)
            /\ written[4] = 0
            /\ \A i \in 1..HID_MAX_COMMAND_LENGTH : written[i + 4] = Sized(Utf8(command), i)

\* send_command has handed over a command of more than 64 characters with
\* the simple protocol
C39_LongCommandCut ==
    /\ writer = "send_command"
    /\ Len(command) > HID_PACKET_SIZE
    /\ written # None
    /\ written[HID_PACKET_SIZE + 1] = 97

====
